---- MODULE Spec2Model ----
(***************************************************************************)
(* A model of the search engine's crawl orchestrator (web_crawler.py) and  *)
(* of its in-memory inverted index (indexer.py).                           *)
(*                                                                         *)
(* The crawler runs on asyncio: one thread, and a worker runs without      *)
(* interruption from one `await` that really suspends to the next.  Every  *)
(* worker action below is one such uninterrupted run.                      *)
(*                                                                         *)
(* Strings that the code takes apart (URLs, paths) are sequences of        *)
(* one-character strings, so that strip/endswith/count/split/startswith    *)
(* are computed as the code computes them.                                 *)
(***************************************************************************)
EXTENDS Integers, Sequences, FiniteSets, Bags, TLC

\* ------------------------------------------------------------------ bounds

\* max_workers is drawn from 1..MaxWorkers
MaxWorkers == 2
\* retry_attempts is drawn from 0..MaxRetryAttempts
MaxRetryAttempts == 1
\* the clock advances at most MaxTicks times (each by one robots TTL)
MaxTicks == 1
\* the index specification performs at most MaxCalls calls
MaxCalls == 3
\* token sequences passed to index_terms have at most MaxTokens tokens
MaxTokens == 2
MaxAddsPerDoc == 2
MaxPostingCalls == 2

\* ------------------------------------------------- program constants

\* timedelta(hours=24), the lifetime of a cached robots rule set
RobotsTTLHours == 24

\* ------------------------------------------------------------ string helpers

\* str.count(c)
RECURSIVE Count(_, _)
Count(s, c) ==
    IF s = <<>> THEN 0
    ELSE (IF Head(s) = c THEN 1 ELSE 0) + Count(Tail(s), c)

\* str.startswith(p)
StartsWith(s, p) ==
    /\ Len(p) <= Len(s)
    /\ SubSeq(s, 1, Len(p)) = p

\* str.endswith(p)
EndsWith(s, p) ==
    /\ Len(p) <= Len(s)
    /\ SubSeq(s, Len(s) - Len(p) + 1, Len(s)) = p

\* str.rstrip(c) for a one-character c: every trailing c goes
RECURSIVE RStrip(_, _)
RStrip(s, c) ==
    IF s # <<>> /\ s[Len(s)] = c THEN RStrip(SubSeq(s, 1, Len(s) - 1), c) ELSE s

\* str.lstrip(c) for a one-character c
RECURSIVE LStrip(_, _)
LStrip(s, c) ==
    IF s # <<>> /\ Head(s) = c THEN LStrip(Tail(s), c) ELSE s

\* str.strip(): leading and trailing blanks go
Strip(s) == RStrip(LStrip(s, " "), " ")

\* the index of the first element of s that is in the set cs, or Len(s)+1
RECURSIVE FirstOf(_, _, _)
FirstOf(s, cs, i) ==
    IF i > Len(s) THEN Len(s) + 1
    ELSE IF s[i] \in cs THEN i
    ELSE FirstOf(s, cs, i + 1)

\* str.split(c)[0]
SplitFirst(s, c) == SubSeq(s, 1, FirstOf(s, {c}, 1) - 1)

\* the index at which p first occurs in s as a substring, or 0
RECURSIVE Find(_, _, _)
Find(s, p, i) ==
    IF i + Len(p) - 1 > Len(s) THEN 0
    ELSE IF SubSeq(s, i, i + Len(p) - 1) = p THEN i
    ELSE Find(s, p, i + 1)

\* str.lower() on the letters the modelled URLs and titles use
LowerChar(c) ==
    CASE c = "P" -> "p"
      [] c = "D" -> "d"
      [] c = "F" -> "f"
      [] c = "E" -> "e"
      [] c = "H" -> "h"
      [] OTHER -> c

Lower(s) == [i \in 1..Len(s) |-> LowerChar(s[i])]

\* ------------------------------------------------------------- URLProcessor

\* urlparse(url).scheme: what stands before "://" (empty when there is none)
UrlScheme(url) ==
    LET k == Find(url, <<":", "/", "/">>, 1)
    IN  IF k = 0 THEN <<>> ELSE SubSeq(url, 1, k - 1)

\* urlparse(url).netloc: from after "://" up to the next "/", "?" or "#"
UrlNetloc(url) ==
    LET k == Find(url, <<":", "/", "/">>, 1)
    IN  IF k = 0 THEN <<>>
        ELSE LET rest == SubSeq(url, k + 3, Len(url))
             IN  SubSeq(rest, 1, FirstOf(rest, {"/", "?", "#"}, 1) - 1)

is_valid_url(url) == UrlScheme(url) # <<>> /\ UrlNetloc(url) # <<>>

normalize_url(raw) ==
    LET url  == Strip(raw)
        url2 == IF EndsWith(url, <<"/">>) /\ Count(url, "/") > 3
                THEN RStrip(url, "/") ELSE url
    IN  SplitFirst(url2, "#")

\* mutant of get_domain: the scheme is returned where the host was meant
get_domain_scheme(url) == UrlScheme(url)

get_domain(url) == UrlNetloc(url)

skip_extensions ==
    { <<".", "p", "d", "f">>, <<".", "z", "i", "p">>, <<".", "e", "x", "e">>,
      <<".", "j", "p", "g">>, <<".", "p", "n", "g">>, <<".", "g", "i", "f">>,
      <<".", "m", "p", "4">> }

\* mutant of should_follow_link: the domains are not compared
should_follow_link_any_domain(current_url, link_url, follow_external) ==
    /\ is_valid_url(link_url)
    /\ \A ext \in skip_extensions : ~EndsWith(Lower(link_url), ext)

should_follow_link(current_url, link_url, follow_external) ==
    /\ is_valid_url(link_url)
    /\ (follow_external \/ get_domain(current_url) = get_domain(link_url))
    /\ \A ext \in skip_extensions : ~EndsWith(Lower(link_url), ext)

\* ------------------------------------------------------ the modelled web

HTTP == <<"h", "t", "t", "p", ":", "/", "/">>

U_aRoot   == HTTP \o <<"a", "/">>
U_ap      == HTTP \o <<"a", "/", "p">>
U_apSlash == HTTP \o <<"a", "/", "p", "/">>
U_aq      == HTTP \o <<"a", "/", "q">>
U_aPdf    == HTTP \o <<"a", "/", "f", ".", "P", "D", "F">>
U_bx      == HTTP \o <<"b", "/", "x">>
U_c       == HTTP \o <<"c">>

\* what extract_links makes of href="https:///x": a scheme and no host
U_noHost  == <<"h", "t", "t", "p", "s", ":", "/", "/", "/", "x">>

RawUrls == {U_aRoot, U_ap, U_apSlash, U_aq, U_aPdf, U_bx, U_c}

\* every URL a worker can hold: the normalized forms
Urls == {normalize_url(u) : u \in RawUrls}

\* every URL text the modelled web holds: as seeded, as linked, as normalized
WebUrls == RawUrls \cup Urls \cup {U_noHost}

\* normalize_url on the URLs of the modelled web, tabulated
NormalizedUrl == [u \in WebUrls |-> normalize_url(u)]

\* PageContent.links of the page served at a URL: what extract_links returns,
\* absolute URLs without fragment, as a set (list(set(links)) has no fixed order)
PageLinks(url) ==
    CASE url = U_aRoot -> {U_ap, U_aq, U_bx, U_aPdf, U_noHost}
      [] url = U_ap    -> {U_aq, U_aRoot}
      [] url = U_aq    -> {U_apSlash, U_aRoot}
      [] url = U_bx    -> {U_aRoot}
      [] OTHER         -> {}

\* the lines of the robots.txt a domain serves, comments and blanks stripped:
\* key is the lowercased field name, value what follows the colon, stripped
RobotsFile(domain) ==
    IF domain = HTTP \o <<"a">>
    THEN << [key |-> "user-agent", agent |-> "*",        path |-> <<>>],
            [key |-> "disallow",   agent |-> "",         path |-> <<"/", "q">>],
            [key |-> "disallow",   agent |-> "",         path |-> <<>>],
            [key |-> "user-agent", agent |-> "OtherBot", path |-> <<>>],
            [key |-> "disallow",   agent |-> "",         path |-> <<"/", "p">>] >>
    ELSE <<>>

\* whether the domain serves a robots.txt at all (status 200 is possible)
HasRobotsFile(domain) == domain = HTTP \o <<"a">>

\* ---------------------------------------------------------- configuration

SeedChoices == { <<U_aRoot>>, <<U_c>>, <<U_ap, U_apSlash, U_aq>> }

MaxPagesChoices == {1, 2, 5}

Configs ==
    [ seed_urls             : SeedChoices,
      max_pages             : MaxPagesChoices,
      max_workers           : 1..MaxWorkers,
      respect_robots_txt    : BOOLEAN,
      retry_attempts        : 0..MaxRetryAttempts,
      follow_external_links : BOOLEAN,
      user_agent            : {"SearchEngineBot"} ]

\* ----------------------------------------------------------------- state

VARIABLES
    cfg,            \* CrawlerConfig of this run
    to_visit,       \* WebCrawler.to_visit, the frontier
    visited_urls,   \* WebCrawler.visited_urls
    crawled_pages,  \* WebCrawler.crawled_pages, each page by its url
    session,        \* WebCrawler.session is set
    crawl_pc,       \* where crawl() stands: "init", "gather", "returned"
    workers,        \* the crawl_worker coroutines, as a bag of their states
    robots_cache,   \* RobotsTxtParser.cache: domain -> disallowed paths
    cache_expiry,   \* RobotsTxtParser.cache_expiry: domain -> hour
    now,            \* datetime.now(), in hours
    fetch_calls,    \* history: url -> times the worker loop called fetch_page
    robots_gets,    \* history: domain -> robots.txt requests issued so far
    robots_denied,  \* history: urls for which can_fetch answered False
    served,         \* history: urls for which a GET answered 200
    index,          \* InvertedIndex.index: term -> postings
    document_count, \* InvertedIndex.document_count
    documents,      \* InvertedIndex.documents: key of doc_id -> metadata
    added_ids,      \* history: doc_ids passed to add_document
    last_call,      \* history: the last InvertedIndex call and its arguments
    calls,          \* history: number of InvertedIndex calls made
    json_file,      \* the JSON document save_to_json has written, if any
    index2,         \* a second InvertedIndex, the one load_from_json fills
    db,             \* DatabaseManager: the documents table and its connection
    idf_cache,      \* TFIDFRanker.idf_cache: term -> idf
    last_search,    \* history: the last search, its arguments and results
    idf_first,      \* history: term -> what the first calculate_idf returned
    idf_last        \* history: term -> what the last calculate_idf returned

crawl_vars == <<cfg, to_visit, visited_urls, crawled_pages, session, crawl_pc,
                workers, robots_cache, cache_expiry, now, fetch_calls, robots_gets,
                robots_denied, served>>

store_vars == <<json_file, index2, db>>

ranker_vars == <<idf_cache, last_search, idf_first, idf_last>>

index_vars == <<index, document_count, documents, added_ids, last_call, calls,
                store_vars, ranker_vars>>

vars == <<crawl_vars, index_vars>>

NoUrl == <<>>

\* --------------------------------------------------------- RobotsTxtParser

\* the domain key of can_fetch: f"{parsed.scheme}://{parsed.netloc}"
UrlDomain(url) == UrlScheme(url) \o <<":", "/", "/">> \o UrlNetloc(url)

\* mutant of ParseLines: the agent a Disallow line stands under is not looked at
RECURSIVE ParseLinesAnyAgent(_, _, _, _)
ParseLinesAnyAgent(lines, user_agent, current_agent, disallowed) ==
    IF lines = <<>> THEN disallowed
    ELSE LET line == Head(lines) IN
         IF line.key = "disallow" /\ line.path # <<>>
         THEN ParseLinesAnyAgent(Tail(lines), user_agent, current_agent,
                                 Append(disallowed, line.path))
         ELSE ParseLinesAnyAgent(Tail(lines), user_agent, current_agent,
                                 disallowed)

\* _parse_robots_txt: the Disallow paths under User-agent * or the own agent
RECURSIVE ParseLines(_, _, _, _)
ParseLines(lines, user_agent, current_agent, disallowed) ==
    IF lines = <<>> THEN disallowed
    ELSE LET line == Head(lines) IN
         IF line.key = "user-agent"
         THEN ParseLines(Tail(lines), user_agent, line.agent, disallowed)
         ELSE IF /\ line.key = "disallow"
                 /\ (current_agent = "*" \/ current_agent = user_agent)
                 /\ line.path # <<>>
         THEN ParseLines(Tail(lines), user_agent, current_agent,
                         Append(disallowed, line.path))
         ELSE ParseLines(Tail(lines), user_agent, current_agent, disallowed)

parse_robots_txt(lines, user_agent) == ParseLines(lines, user_agent, "None", <<>>)

\* not any(url.startswith(f"{domain}{path}") for path in disallowed)
RulesAllow(url, disallowed) ==
    \A i \in 1..Len(disallowed) :
        ~StartsWith(url, UrlDomain(url) \o disallowed[i])

\* mutant of CacheFresh: the rule set is still used at its expiry time
CacheFreshAtExpiry(url, cache, expiry) ==
    /\ UrlDomain(url) \in DOMAIN cache
    /\ UrlDomain(url) \in DOMAIN expiry
    /\ now <= expiry[UrlDomain(url)]

\* can_fetch answers from the cache: the domain is cached and not expired
CacheFresh(url, cache, expiry) ==
    /\ UrlDomain(url) \in DOMAIN cache
    /\ UrlDomain(url) \in DOMAIN expiry
    /\ now < expiry[UrlDomain(url)]

\* -------------------------------------------------------------- crawl_worker

\* The state of one crawl_worker coroutine.  The coroutines are anonymous and
\* run the same code, so the pool is the bag of these records.
\*   pc      where it is suspended: "start" (not yet scheduled), "robots"
\*           (robots.txt requested), "get" (page requested), "backoff" (sleep
\*           before a retry), "delay" (sleep after the fetch), "done"
\*   url     the normalized URL it holds
\*   attempt the `attempt` argument of the running fetch_page call
\*   gets    history: GET requests this fetch_page call chain has issued
\*   last    history: how the last GET ended
\*   waits   history: the backoff sleeps of this fetch_page call chain, in
\*           seconds
Worker(pc, url, attempt, gets, last, waits) ==
    [pc |-> pc, url |-> url, attempt |-> attempt, gets |-> gets, last |-> last,
     waits |-> waits]

Idle(pc) == Worker(pc, NoUrl, 0, 0, "none", <<>>)

\* the pool with one worker in state r replaced by one in state r2
Replace(r, r2) == (workers (-) SetToBag({r})) (+) SetToBag({r2})

\* mutant of LoopCondition: the loop stops one URL early
LoopConditionEarly(frontier) ==
    Len(frontier) > 1 /\ Len(crawled_pages) < cfg.max_pages

\* the while condition of crawl_worker
LoopCondition(frontier) ==
    frontier # <<>> /\ Len(crawled_pages) < cfg.max_pages

\* mutant of MarkVisited: the URL is not marked before the fetch
MarkVisitedLate(visited, url) == visited

\* mutant of MarkVisited: the set is overwritten instead of extended
MarkVisitedOnly(visited, url) == {url}

\* self.visited_urls.add(url), done before the robots check and the fetch
MarkVisited(visited, url) == visited \cup {url}

\* mutant of SkipsOnRobots: the answer of can_fetch is ignored
SkipsNever(allowed) == FALSE

\* the robots branch: `if not await can_fetch(...): continue`
SkipsOnRobots(allowed) == ~allowed

\* history: can_fetch has answered `allowed` for url
Answered(denied, url, allowed) ==
    IF allowed THEN denied ELSE denied \cup {url}

\* One uninterrupted run of the loop from its head to the next await that
\* suspends, or to the loop's exit.  Already visited URLs and URLs the cached
\* robots rules disallow are passed over without suspending (`continue`).
\* The result says where the worker stops and what it has changed.
RECURSIVE LoopHead(_, _, _, _, _)
LoopHead(frontier, visited, denied, cache, expiry) ==
    IF ~LoopCondition(frontier)
    THEN [pc |-> "done", url |-> NoUrl,
          to_visit |-> frontier, visited |-> visited, denied |-> denied]
    ELSE LET url  == NormalizedUrl[Head(frontier)]
             rest == Tail(frontier)
             seen == MarkVisited(visited, url)
         IN  IF url \in visited
             THEN LoopHead(rest, visited, denied, cache, expiry)
             ELSE IF ~cfg.respect_robots_txt
             THEN [pc |-> "get", url |-> url,
                   to_visit |-> rest, visited |-> seen, denied |-> denied]
             ELSE IF ~CacheFresh(url, cache, expiry)
             THEN [pc |-> "robots", url |-> url,
                   to_visit |-> rest, visited |-> seen, denied |-> denied]
             ELSE LET allowed == RulesAllow(url, cache[UrlDomain(url)])
                      noted   == Answered(denied, url, allowed)
                  IN  IF SkipsOnRobots(allowed)
                      THEN LoopHead(rest, seen, noted, cache, expiry)
                      ELSE [pc |-> "get", url |-> url, to_visit |-> rest,
                            visited |-> seen, denied |-> noted]

\* mutant of FetchPage: the retry calls fetch_page(url) and so starts over
\* at attempt 0
FetchPageFromZero(url, attempt, gets, last, waits) ==
    IF session
    THEN [pc |-> "get", url |-> url, attempt |-> 0, gets |-> 1, last |-> last,
          waits |-> <<>>]
    ELSE [pc |-> "delay", url |-> url, attempt |-> 0, gets |-> 0,
          last |-> last, waits |-> <<>>]

\* fetch_page(url, attempt) is entered by a worker that has issued `gets`
\* GETs for the URL and saw the last one end as `last`: without a session it
\* returns None and the worker sleeps its 0.5 s, otherwise it issues a GET
FetchPage(url, attempt, gets, last, waits) ==
    IF session
    THEN Worker("get", url, attempt, gets + 1, last, waits)
    ELSE Worker("delay", url, attempt, gets, last, waits)

\* history: one more robots.txt request for the domain
Requested(gets, domain) ==
    IF domain \in DOMAIN gets THEN [gets EXCEPT ![domain] = @ + 1]
    ELSE (domain :> 1) @@ gets

\* the worker in state r takes the state res that a run of the loop ended in;
\* a run that ends in "get" calls fetch_page(url)
Resume(r, res) ==
    /\ robots_gets' = IF res.pc = "robots"
                      THEN Requested(robots_gets, UrlDomain(res.url))
                      ELSE robots_gets
    /\ to_visit' = res.to_visit
    /\ visited_urls' = res.visited
    /\ robots_denied' = res.denied
    /\ IF res.pc = "get"
       THEN /\ workers' = Replace(r, FetchPage(res.url, 0, 0, "none", <<>>))
            /\ fetch_calls' = [fetch_calls EXCEPT ![res.url] = @ + 1]
       ELSE /\ workers' = Replace(r, Worker(res.pc, res.url, 0, 0, "none", <<>>))
            /\ UNCHANGED fetch_calls

\* the permutations of a finite set, as sequences
Perms(S) ==
    {p \in [1..Cardinality(S) -> S] : \A i, j \in 1..Cardinality(S) : p[i] = p[j] => i = j}

\* mutant of Enqueues: the visited check on a link is left out
EnqueuesVisited(url, link) ==
    should_follow_link(url, link, cfg.follow_external_links)

\* `link not in self.visited_urls and should_follow_link(url, link, ...)`
\* for a normalized link of the page at url
Enqueues(url, link) ==
    /\ link \notin visited_urls
    /\ should_follow_link(url, link, cfg.follow_external_links)

\* mutant of FollowedLinks: the loop over page.links stops after the first
\* link it has enqueued
FollowedLinksFirst(url) ==
    LET all == {l \in PageLinks(url) : Enqueues(url, NormalizedUrl[l])}
    IN  IF all = {} THEN {} ELSE {CHOOSE l \in all : TRUE}

\* the raw links of the page at url whose normalized form is enqueued
FollowedLinks(url) ==
    {l \in PageLinks(url) : Enqueues(url, NormalizedUrl[l])}

\* mutant of Retries: one retry too many
RetriesOnceMore(failure, attempt) ==
    /\ failure \in {"timeout", "error"}
    /\ attempt <= cfg.retry_attempts

\* mutant of Retries: a status other than 200 is retried like an exception
RetriesAnyFailure(failure, attempt) == attempt < cfg.retry_attempts

\* CrawlerConfig.retry_backoff (2.0)
retry_backoff == 2

\* mutant of backoff_sleep: the sleep grows by the base with every attempt
backoff_sleep_linear(attempt) == retry_backoff * (attempt + 1)

\* asyncio.sleep(self.config.retry_backoff ** attempt): the seconds slept
\* before fetch_page(url, attempt + 1)
backoff_sleep(attempt) == retry_backoff ^ attempt

\* fetch_page after a GET that failed in the given way on the given attempt:
\* a timeout or an exception is retried while attempt < retry_attempts, a
\* status other than 200 returns None at once
Retries(failure, attempt) ==
    /\ failure \in {"timeout", "error"}
    /\ attempt < cfg.retry_attempts

\* asyncio runs the first step of every task that gather has created before
\* it handles any completed I/O or timer: no worker resumes while another
\* has not yet started
AllStarted == \A r \in BagToSet(workers) : r.pc # "start"

\* crawl(): the session is opened and max_workers workers are created
CrawlStart ==
    /\ crawl_pc = "init"
    /\ crawl_pc' = "gather"
    /\ session' = TRUE
    /\ workers' = [r \in {Idle("start")} |-> cfg.max_workers]
    /\ UNCHANGED <<cfg, to_visit, visited_urls, crawled_pages, robots_cache,
                   cache_expiry, now, fetch_calls, robots_gets, robots_denied, served>>
    /\ UNCHANGED index_vars

\* a worker is scheduled for the first time and enters its loop
WorkerStart(r) ==
    /\ crawl_pc = "gather"
    /\ r.pc = "start"
    /\ \E res \in {LoopHead(to_visit, visited_urls, robots_denied,
                             robots_cache, cache_expiry)} : Resume(r, res)
    /\ UNCHANGED <<cfg, crawled_pages, session, crawl_pc, robots_cache,
                   cache_expiry, now, served>>
    /\ UNCHANGED index_vars

\* can_fetch: the request for robots.txt ends.  Status 200: the rules are
\* parsed and cached for 24 hours and decide; anything else: allowed.
RobotsResponse(r) ==
    /\ r.pc = "robots"
    /\ AllStarted
    /\ LET url == r.url
           dom == UrlDomain(url)
       IN  \E ok \in {TRUE, FALSE} :
           /\ ok => HasRobotsFile(dom)
           /\ LET rules  == parse_robots_txt(RobotsFile(dom), cfg.user_agent)
                  cache  == IF ok
                            THEN [d \in DOMAIN robots_cache \cup {dom} |->
                                     IF d = dom THEN rules ELSE robots_cache[d]]
                            ELSE robots_cache
                  expiry == IF ok
                            THEN [d \in DOMAIN cache_expiry \cup {dom} |->
                                     IF d = dom THEN now + RobotsTTLHours
                                     ELSE cache_expiry[d]]
                            ELSE cache_expiry
                  allowed == IF ok THEN RulesAllow(url, rules) ELSE TRUE
              IN  /\ robots_cache' = cache
                  /\ cache_expiry' = expiry
                  /\ \E res \in
                        { IF SkipsOnRobots(allowed)
                          THEN LoopHead(to_visit, visited_urls,
                                        Answered(robots_denied, url, allowed),
                                        cache, expiry)
                          ELSE [pc |-> "get", url |-> url,
                                to_visit |-> to_visit,
                                visited |-> visited_urls,
                                denied |-> Answered(robots_denied, url,
                                                    allowed)] } :
                        Resume(r, res)
    /\ UNCHANGED <<cfg, crawled_pages, session, crawl_pc, now, served>>
    /\ UNCHANGED index_vars

\* fetch_page: the GET ends.  200: the page is appended and its links are
\* enqueued, in the order the page lists them; otherwise a retry after the
\* backoff sleep, or None and no page.  The worker then sleeps 0.5 s.
FetchResponse(r) ==
    /\ r.pc = "get"
    /\ AllStarted
    /\ \E result \in {"ok", "status", "timeout", "error"} :
           IF result = "ok"
           THEN /\ crawled_pages' = Append(crawled_pages, r.url)
                /\ served' = served \cup {r.url}
                /\ \E links \in {FollowedLinks(r.url)} :
                   \E order \in Perms(links) :
                      to_visit' = to_visit \o
                          [i \in 1..Len(order) |-> NormalizedUrl[order[i]]]
                /\ workers' = Replace(r, Worker("delay", r.url, r.attempt,
                                                r.gets, result, r.waits))
           ELSE /\ IF Retries(result, r.attempt)
                   THEN workers' = Replace(r,
                            Worker("backoff", r.url, r.attempt, r.gets, result,
                                   Append(r.waits, backoff_sleep(r.attempt))))
                   ELSE workers' = Replace(r, Worker("delay", r.url, r.attempt,
                                                     r.gets, result, r.waits))
                /\ UNCHANGED <<crawled_pages, to_visit, served>>
    /\ UNCHANGED <<cfg, visited_urls, session, crawl_pc, robots_cache,
                   cache_expiry, now, fetch_calls, robots_gets, robots_denied>>
    /\ UNCHANGED index_vars

\* fetch_page: the backoff sleep ends and fetch_page(url, attempt + 1) is
\* called
BackoffWake(r) ==
    /\ r.pc = "backoff"
    /\ AllStarted
    /\ workers' = Replace(r, FetchPage(r.url, r.attempt + 1, r.gets, r.last,
                                         r.waits))
    /\ UNCHANGED <<cfg, to_visit, visited_urls, crawled_pages, session,
                   crawl_pc, robots_cache, cache_expiry, now, fetch_calls, robots_gets,
                   robots_denied, served>>
    /\ UNCHANGED index_vars

\* the 0.5 s sleep after a fetch ends and the worker is back at the loop head
DelayWake(r) ==
    /\ r.pc = "delay"
    /\ AllStarted
    /\ \E res \in {LoopHead(to_visit, visited_urls, robots_denied,
                             robots_cache, cache_expiry)} : Resume(r, res)
    /\ UNCHANGED <<cfg, crawled_pages, session, crawl_pc, robots_cache,
                   cache_expiry, now, served>>
    /\ UNCHANGED index_vars

\* crawl(): gather returns once every worker has left its loop
CrawlReturn ==
    /\ crawl_pc = "gather"
    /\ \A r \in BagToSet(workers) : r.pc = "done"
    /\ crawl_pc' = "returned"
    /\ session' = FALSE
    /\ UNCHANGED <<cfg, to_visit, visited_urls, crawled_pages, workers,
                   robots_cache, cache_expiry, now, fetch_calls, robots_gets, robots_denied, served>>
    /\ UNCHANGED index_vars

\* time passes: one robots TTL at a time
Tick ==
    /\ crawl_pc = "gather"
    /\ now < MaxTicks * RobotsTTLHours
    /\ now' = now + RobotsTTLHours
    /\ UNCHANGED <<cfg, to_visit, visited_urls, crawled_pages, session,
                   crawl_pc, workers, robots_cache, cache_expiry, fetch_calls, robots_gets,
                   robots_denied, served>>
    /\ UNCHANGED index_vars

\* WebCrawler.__init__ with configuration c
CrawlInitWith(c) ==
    /\ cfg = c
    /\ to_visit = c.seed_urls
    /\ visited_urls = {}
    /\ crawled_pages = <<>>
    /\ session = FALSE
    /\ crawl_pc = "init"
    /\ workers = EmptyBag
    /\ robots_cache = <<>>
    /\ cache_expiry = <<>>
    /\ now = 0
    /\ fetch_calls = [u \in Urls |-> 0]
    /\ robots_gets = <<>>
    /\ robots_denied = {}
    /\ served = {}

CrawlInit == \E c \in Configs : CrawlInitWith(c)

\* ------------------------------------------------------------ InvertedIndex

DocIds == {1, 2}

\* the text the ranker takes apart, as the sequence of its characters
T_hello == <<"h", "e", "l", "l", "o">>
T_world == <<"w", "o", "r", "l", "d">>
Title_Example == <<"E", "x", "a", "m", "p", "l", "e">>
Title_Hello == <<"H", "e", "l", "l", "o">>

Metadata ==
    { [url |-> "https://example.com", title |-> Title_Example],
      [url |-> "https://example.org", title |-> Title_Hello] }

Terms == {T_hello, T_world}

\* the keys of the documents dict: the int doc_id the indexer stores under,
\* and the str a JSON object has for a key (StrKey(n) is str(n))
IntKey(n) == <<"int", n>>
StrKey(n) == <<"str", n>>

\* the token sequences of at most MaxTokens tokens
TokenSeqs == UNION {[1..n -> Terms] : n \in 0..MaxTokens}

Posting(doc_id, frequency, positions) ==
    [doc_id |-> doc_id, frequency |-> frequency, positions |-> positions]

\* the positions (from 0) at which term stands in terms, ascending:
\* term_positions[term] after the enumerate loop
\* mutant of PositionsFrom: the positions are counted from 1
RECURSIVE PositionsFromOne(_, _, _)
PositionsFromOne(terms, term, i) ==
    IF i > Len(terms) THEN <<>>
    ELSE (IF terms[i] = term THEN <<i>> ELSE <<>>)
         \o PositionsFromOne(terms, term, i + 1)

RECURSIVE PositionsFrom(_, _, _)
PositionsFrom(terms, term, i) ==
    IF i > Len(terms) THEN <<>>
    ELSE (IF terms[i] = term THEN <<i - 1>> ELSE <<>>)
         \o PositionsFrom(terms, term, i + 1)

term_positions(terms, term) == PositionsFrom(terms, term, 1)

\* mutant of add_document: the count is left as it is
add_document_uncounted(docs, count, doc_id, doc_metadata) ==
    [ documents |-> [d \in DOMAIN docs \cup {IntKey(doc_id)} |->
                        IF d = IntKey(doc_id) THEN doc_metadata ELSE docs[d]],
      document_count |-> count ]

\* add_document: the metadata is stored under doc_id, the count goes up
add_document(docs, count, doc_id, doc_metadata) ==
    [ documents |-> [d \in DOMAIN docs \cup {IntKey(doc_id)} |->
                        IF d = IntKey(doc_id) THEN doc_metadata ELSE docs[d]],
      document_count |-> count + 1 ]

\* mutant of index_terms: a term that has a posting for the document gets
\* the new frequency added to that posting
index_terms_summed(idx, doc_id, terms) ==
    LET new == {terms[i] : i \in 1..Len(terms)}
    IN  [t \in DOMAIN idx \cup new |->
            LET old == IF t \in DOMAIN idx THEN idx[t] ELSE <<>>
                f == Len(term_positions(terms, t))
            IN  IF t \notin new THEN old
                ELSE IF \E k \in 1..Len(old) : old[k].doc_id = doc_id
                THEN [k \in 1..Len(old) |->
                         IF old[k].doc_id = doc_id
                         THEN Posting(doc_id, old[k].frequency + f,
                                      old[k].positions)
                         ELSE old[k]]
                ELSE Append(old, Posting(doc_id, f, term_positions(terms, t)))]

\* mutant of index_terms: the new posting is put in front of the list
index_terms_front(idx, doc_id, terms) ==
    LET new == {terms[i] : i \in 1..Len(terms)}
    IN  [t \in DOMAIN idx \cup new |->
            LET old == IF t \in DOMAIN idx THEN idx[t] ELSE <<>>
            IN  IF t \in new
                THEN <<Posting(doc_id, Len(term_positions(terms, t)),
                               term_positions(terms, t))>> \o old
                ELSE old]

\* index_terms: one posting per distinct term of terms is appended to the
\* term's posting list
index_terms(idx, doc_id, terms) ==
    LET new == {terms[i] : i \in 1..Len(terms)}
    IN  [t \in DOMAIN idx \cup new |->
            LET old == IF t \in DOMAIN idx THEN idx[t] ELSE <<>>
            IN  IF t \in new
                THEN Append(old, Posting(doc_id,
                                         Len(term_positions(terms, t)),
                                         term_positions(terms, t)))
                ELSE old]

\* a term no modelled page holds; it is a substring of the title "Example"
T_x == <<"x">>

\* get_postings: self.index.get(term, [])
get_postings(idx, term) == IF term \in DOMAIN idx THEN idx[term] ELSE <<>>

NoCall == [op |-> "none"]

\* InvertedIndex.__init__
IndexInit ==
    /\ index = <<>>
    /\ document_count = 0
    /\ documents = <<>>
    /\ added_ids = {}
    /\ last_call = NoCall
    /\ calls = 0

AddDocument(doc_id, doc_metadata) ==
    /\ calls < MaxCalls
    /\ LET r == add_document(documents, document_count, doc_id, doc_metadata)
       IN  /\ documents' = r.documents
           /\ document_count' = r.document_count
    /\ added_ids' = added_ids \cup {doc_id}
    /\ last_call' = [op |-> "add_document", doc_id |-> doc_id,
                     doc_metadata |-> doc_metadata,
                     count_before |-> document_count]
    /\ calls' = calls + 1
    /\ UNCHANGED index
    /\ UNCHANGED <<crawl_vars, store_vars, ranker_vars>>

IndexTerms(doc_id, terms) ==
    /\ calls < MaxCalls
    /\ index' = index_terms(index, doc_id, terms)
    /\ last_call' = [op |-> "index_terms", doc_id |-> doc_id, terms |-> terms,
                     count_before |-> document_count]
    /\ calls' = calls + 1
    /\ UNCHANGED <<document_count, documents, added_ids>>
    /\ UNCHANGED <<crawl_vars, store_vars, ranker_vars>>

\* index.get_postings(term): dict.get reads the dict and inserts nothing
GetPostings(term) ==
    /\ calls < MaxCalls
    /\ last_call' = [op |-> "get_postings", term |-> term,
                     postings |-> get_postings(index, term)]
    /\ calls' = calls + 1
    /\ UNCHANGED <<index, document_count, documents, added_ids>>
    /\ UNCHANGED <<crawl_vars, store_vars, ranker_vars>>

\* ---------------------------------------------------------- JSON snapshot

\* the state of an InvertedIndex object
IndexObject(idx, count, docs) ==
    [index |-> idx, document_count |-> count, documents |-> docs]

\* InvertedIndex(): no postings, no documents
FreshIndex == IndexObject(<<>>, 0, <<>>)

NoFile == [written |-> FALSE]

\* what json.dump writes for the dict save_to_json builds: every key of an
\* object is a str (an int key n is written as str(n)), every posting tuple
\* is an array [doc_id, freq, positions]; document_count is not written
json_dump(idx, docs) ==
    [ written |-> TRUE,
      documents |->
          [k \in {StrKey(key[2]) : key \in DOMAIN docs} |->
              docs[CHOOSE key \in DOMAIN docs : key[2] = k[2]]],
      index |->
          [t \in DOMAIN idx |->
              [i \in 1..Len(idx[t]) |->
                  <<idx[t][i].doc_id, idx[t][i].frequency,
                    idx[t][i].positions>>]] ]

\* load_from_json on the object obj: documents is the parsed object as it is
\* (str keys), document_count its length, and the posting list of every term
\* of the file is rebuilt as tuples
load_from_json(obj, data) ==
    [ documents |-> data.documents,
      document_count |-> Cardinality(DOMAIN data.documents),
      index |->
          [t \in DOMAIN obj.index \cup DOMAIN data.index |->
              IF t \in DOMAIN data.index
              THEN [i \in 1..Len(data.index[t]) |->
                       Posting(data.index[t][i][1], data.index[t][i][2],
                               data.index[t][i][3])]
              ELSE obj.index[t]] ]

\* the documents table of a new database file, seen through a connection
\* that has inserted nothing: rows is url -> id, seq the highest id the
\* AUTOINCREMENT column has handed out, last the rowid of the last insert
\* made through the connection (cursor.lastrowid reads it)
EmptyDb == [rows |-> <<>>, seq |-> 0, last |-> 0]

StoreInit ==
    /\ json_file = NoFile
    /\ index2 = FreshIndex
    /\ db = EmptyDb

\* index.save_to_json(path)
SaveToJson ==
    /\ json_file' = json_dump(index, documents)
    /\ last_call' = [op |-> "save_to_json"]
    /\ UNCHANGED <<index, document_count, documents, added_ids, calls>>
    /\ UNCHANGED <<index2, db, ranker_vars, crawl_vars>>

\* index2.load_from_json(path): without a file open() raises, the error is
\* logged and the object is left as it was
LoadFromJson ==
    /\ index2' = IF json_file.written
                    THEN load_from_json(index2, json_file)
                    ELSE index2
    /\ last_call' = [op |-> "load_from_json", loaded |-> json_file.written]
    /\ UNCHANGED <<index, document_count, documents, added_ids, calls>>
    /\ UNCHANGED <<json_file, db, ranker_vars, crawl_vars>>

\* ------------------------------------------------------------- TFIDFRanker

\* RankingConfig.boost_title_matches and the default of max_results
BoostTitle == 2
DefaultMaxResults == 20

\* math.log(n) for the document counts and posting list lengths of the model,
\* in millionths; the logarithm of a product is the sum of the logarithms,
\* so that scores that are equal as real numbers are equal here
LnMicro(n) ==
    CASE n = 1 -> 0
      [] n = 2 -> 693147
      [] n = 3 -> 1098612
      [] n = 4 -> 2 * 693147
      [] n = 5 -> 1609438
      [] n = 6 -> 693147 + 1098612
      [] n = 7 -> 1945910
      [] n = 8 -> 3 * 693147
      [] n = 9 -> 2 * 1098612
      [] n = 10 -> 693147 + 1609438
      [] n = 11 -> 2397895
      [] n = 12 -> 2 * 693147 + 1098612
      [] n = 13 -> 2564949
      [] n = 14 -> 693147 + 1945910
      [] n = 15 -> 1098612 + 1609438
      [] n = 16 -> 4 * 693147

\* mutant of log_ratio: the ratio is taken upside down
log_ratio_inverted(N, df) == LnMicro(df) - LnMicro(N)

\* math.log(N / df)
log_ratio(N, df) == LnMicro(N) - LnMicro(df)

\* mutant of calculate_idf: nothing is cached, every call computes
calculate_idf_uncached(cache, idx, N, term) ==
    IF get_postings(idx, term) = <<>> THEN [idf |-> 0, cache |-> cache]
    ELSE [idf |-> IF N > 0 THEN log_ratio(N, Len(get_postings(idx, term)))
                  ELSE 0,
          cache |-> cache]

\* mutant of calculate_idf: what is cached is not what is returned
calculate_idf_caching_zero(cache, idx, N, term) ==
    IF term \in DOMAIN cache THEN [idf |-> cache[term], cache |-> cache]
    ELSE IF get_postings(idx, term) = <<>> THEN [idf |-> 0, cache |-> cache]
    ELSE LET idf == IF N > 0 THEN log_ratio(N, Len(get_postings(idx, term)))
                    ELSE 0
         IN  [idf |-> idf, cache |-> (term :> 0) @@ cache]

\* calculate_idf(term) with the cache before the call: the idf it returns and
\* the cache after it. A cached value is returned as it is; a term without
\* postings gives 0.0 and is not cached; otherwise log(N / df), or 0.0 when
\* no document is counted, is cached and returned
calculate_idf(cache, idx, N, term) ==
    IF term \in DOMAIN cache THEN [idf |-> cache[term], cache |-> cache]
    ELSE IF get_postings(idx, term) = <<>> THEN [idf |-> 0, cache |-> cache]
    ELSE LET idf == IF N > 0 THEN log_ratio(N, Len(get_postings(idx, term)))
                    ELSE 0
         IN  [idf |-> idf, cache |-> (term :> idf) @@ cache]

\* mutant of TfFrom: the frequencies of all postings of the document add up
RECURSIVE TfFromSum(_, _, _)
TfFromSum(postings, doc_id, i) ==
    IF i > Len(postings) THEN 0
    ELSE (IF postings[i].doc_id = doc_id THEN postings[i].frequency ELSE 0)
         + TfFromSum(postings, doc_id, i + 1)

\* the loop of calculate_tf from posting i on: the frequency of the first
\* posting of the document, 0.0 when there is none
RECURSIVE TfFrom(_, _, _)
TfFrom(postings, doc_id, i) ==
    IF i > Len(postings) THEN 0
    ELSE IF postings[i].doc_id = doc_id THEN postings[i].frequency
    ELSE TfFrom(postings, doc_id, i + 1)

calculate_tf(idx, term, doc_id) == TfFrom(get_postings(idx, term), doc_id, 1)

\* dict.get(field, default)
MetaGet(doc_metadata, field, default) ==
    IF field \in DOMAIN doc_metadata THEN doc_metadata[field] ELSE default

\* documents.get(doc_id, {})
NoMetadata == <<>>
LookUp(docs, doc_id) ==
    IF IntKey(doc_id) \in DOMAIN docs THEN docs[IntKey(doc_id)] ELSE NoMetadata

\* term.lower() in (doc_metadata.get('title', '') or '').lower()
TitleMatch(term, doc_metadata) ==
    Find(Lower(MetaGet(doc_metadata, "title", <<>>)), Lower(term), 1) > 0

\* score_document from query term i on: the sum of tf * idf over the query
\* terms, a term that is in the title counted boost_title times; the cache
\* goes through the calculate_idf calls
RECURSIVE ScoreFrom(_, _, _, _, _, _, _)
ScoreFrom(cache, idx, N, doc_id, query_terms, doc_metadata, i) ==
    IF i > Len(query_terms) THEN [score |-> 0, cache |-> cache]
    ELSE LET term == query_terms[i]
             tf == calculate_tf(idx, term, doc_id)
             r == calculate_idf(cache, idx, N, term)
             tfidf == IF TitleMatch(term, doc_metadata)
                      THEN tf * r.idf * BoostTitle
                      ELSE tf * r.idf
             rest == ScoreFrom(r.cache, idx, N, doc_id, query_terms,
                               doc_metadata, i + 1)
         IN  [score |-> tfidf + rest.score, cache |-> rest.cache]

score_document(cache, idx, N, doc_id, query_terms, doc_metadata) ==
    ScoreFrom(cache, idx, N, doc_id, query_terms, doc_metadata, 1)

\* mutant of KeepsScore: a score of 0 is kept
KeepsScoreZero(score) == score >= 0

\* if score > 0
KeepsScore(score) == score > 0

\* the loop of rank_results from document i on: the (doc_id, score) of the
\* documents whose score is kept, in the order of doc_ids
RECURSIVE ScoresFrom(_, _, _, _, _, _, _)
ScoresFrom(cache, idx, N, docs, query_terms, doc_ids, i) ==
    IF i > Len(doc_ids) THEN [scores |-> <<>>, cache |-> cache]
    ELSE LET doc_id == doc_ids[i]
             r == score_document(cache, idx, N, doc_id, query_terms,
                                 LookUp(docs, doc_id))
             rest == ScoresFrom(r.cache, idx, N, docs, query_terms, doc_ids,
                                i + 1)
             here == IF KeepsScore(r.score)
                     THEN <<[doc_id |-> doc_id, score |-> r.score]>>
                     ELSE <<>>
         IN  [scores |-> here \o rest.scores, cache |-> rest.cache]

\* mutant of InsertByScore: x goes before the entries of its score
InsertAhead(sorted, x) ==
    LET k == Cardinality({i \in 1..Len(sorted) : sorted[i].score > x.score})
    IN  SubSeq(sorted, 1, k) \o <<x>> \o SubSeq(sorted, k + 1, Len(sorted))

\* x is put into the descending sequence sorted, after the entries of its
\* own score
InsertByScore(sorted, x) ==
    LET k == Cardinality({i \in 1..Len(sorted) : sorted[i].score >= x.score})
    IN  SubSeq(sorted, 1, k) \o <<x>> \o SubSeq(sorted, k + 1, Len(sorted))

\* scores.sort(key=lambda x: x[1], reverse=True): descending, and stable
RECURSIVE SortByScore(_)
SortByScore(scores) ==
    IF Len(scores) <= 1 THEN scores
    ELSE InsertByScore(SortByScore(SubSeq(scores, 1, Len(scores) - 1)),
                       scores[Len(scores)])

rank_results(cache, idx, N, docs, query_terms, doc_ids) ==
    LET r == ScoresFrom(cache, idx, N, docs, query_terms, doc_ids, 1)
    IN  [ranked |-> SortByScore(r.scores), cache |-> r.cache]

\* mutant of doc_ids_of: the postings of the first query term only
doc_ids_of_first(idx, query_terms) ==
    IF query_terms = <<>> THEN {}
    ELSE {get_postings(idx, query_terms[1])[k].doc_id :
             k \in 1..Len(get_postings(idx, query_terms[1]))}

\* doc_ids_set after the loops of search: the doc_id of every posting of
\* every query term
RECURSIVE DocIdsFrom(_, _, _)
DocIdsFrom(idx, query_terms, i) ==
    IF i > Len(query_terms) THEN {}
    ELSE LET postings == get_postings(idx, query_terms[i])
         IN  {postings[k].doc_id : k \in 1..Len(postings)}
             \cup DocIdsFrom(idx, query_terms, i + 1)

doc_ids_of(idx, query_terms) == DocIdsFrom(idx, query_terms, 1)

\* list(doc_ids_set): a set of at most 4 ints iterates in the order of its
\* 8 hash slots, the slot of a small int n being n % 8; the modelled doc_ids
\* have slots of their own
RECURSIVE list_of_set(_)
list_of_set(S) ==
    IF S = {} THEN <<>>
    ELSE LET first == CHOOSE x \in S : \A y \in S : x % 8 <= y % 8
         IN  <<first>> \o list_of_set(S \ {first})

\* mutant of NoResults: the early return gives None
NoResultsNone == <<"None">>

\* return []
NoResults == <<>>

\* ranked[:max_results]
Slice(ranked, max_results) ==
    SubSeq(ranked, 1, IF max_results < Len(ranked) THEN max_results
                      ELSE Len(ranked))

\* one entry of the result list
Result(docs, entry) ==
    LET doc_metadata == LookUp(docs, entry.doc_id)
    IN  [ doc_id |-> entry.doc_id,
          url |-> MetaGet(doc_metadata, "url", ""),
          title |-> MetaGet(doc_metadata, "title", <<>>),
          description |-> MetaGet(doc_metadata, "description", ""),
          score |-> entry.score ]

\* Ranker.search(query_terms, max_results) with the cache before the call:
\* the result list and the cache after it
search(cache, idx, N, docs, query_terms, max_results) ==
    LET doc_ids_set == doc_ids_of(idx, query_terms)
    IN  IF doc_ids_set = {} THEN [results |-> NoResults, cache |-> cache]
        ELSE LET r == rank_results(cache, idx, N, docs, query_terms,
                                   list_of_set(doc_ids_set))
                 top == Slice(r.ranked, max_results)
             IN  [ results |-> [i \in 1..Len(top) |-> Result(docs, top[i])],
                   cache |-> r.cache ]

QueryTerms == Terms \cup {T_x}

\* the queries: at most two terms
Queries == {<<>>} \cup {<<t>> : t \in QueryTerms}
           \cup {<<t, u>> : t, u \in QueryTerms}

MaxResultsChoices == {1, DefaultMaxResults}

NoSearch == [op |-> "none"]

\* TFIDFRanker.__init__: the cache is empty
RankerInit ==
    /\ idf_cache = <<>>
    /\ last_search = NoSearch
    /\ idf_first = <<>>
    /\ idf_last = <<>>

\* the histories of calculate_idf after calls for the terms i.. of terms, one
\* after the other, made after `made` calls on the index: what the first and
\* the last call for each term returned, and how many postings the term had
\* at the first call
RECURSIVE IdfCalls(_, _, _, _, _, _, _, _)
IdfCalls(first, last, cache, idx, N, made, terms, i) ==
    IF i > Len(terms) THEN [first |-> first, last |-> last, cache |-> cache]
    ELSE LET term == terms[i]
             r == calculate_idf(cache, idx, N, term)
             seen == [idf |-> r.idf, df |-> Len(get_postings(idx, term)),
                      calls |-> made]
         IN  IdfCalls(IF term \in DOMAIN first THEN first
                      ELSE (term :> seen) @@ first,
                      (term :> [idf |-> r.idf, calls |-> made]) @@ last,
                      r.cache, idx, N, made, terms, i + 1)

\* ranker.calculate_idf(term)
CalculateIdf(term) ==
    /\ LET r == IdfCalls(idf_first, idf_last, idf_cache, index,
                         document_count, calls, <<term>>, 1)
       IN  /\ idf_cache' = r.cache
           /\ idf_first' = r.first
           /\ idf_last' = r.last
    /\ UNCHANGED last_search
    /\ UNCHANGED <<index, document_count, documents, added_ids, last_call,
                   calls>>
    /\ UNCHANGED <<store_vars, crawl_vars>>

\* ranker.search(query_terms, max_results) on the index; a run makes one
\* search and then the same search once more
Search(query_terms, max_results) ==
    /\ \/ last_search = NoSearch
       \/ /\ last_search.op = "search"
          /\ last_search.query_terms = query_terms
          /\ last_search.max_results = max_results
    /\ LET r == search(idf_cache, index, document_count, documents,
                       query_terms, max_results)
           h == IF doc_ids_of(index, query_terms) = {}
                THEN [first |-> idf_first, last |-> idf_last]
                ELSE IdfCalls(idf_first, idf_last, idf_cache, index,
                              document_count, calls, query_terms, 1)
       IN  /\ idf_cache' = r.cache
           /\ idf_first' = h.first
           /\ idf_last' = h.last
           /\ last_search' =
                  IF last_search = NoSearch
                  THEN [ op |-> "search",
                         query_terms |-> query_terms,
                         max_results |-> max_results,
                         doc_ids_set |-> doc_ids_of(index, query_terms),
                         results |-> r.results ]
                  ELSE [ op |-> "search again",
                         query_terms |-> query_terms,
                         max_results |-> max_results,
                         doc_ids_set |-> doc_ids_of(index, query_terms),
                         results |-> r.results,
                         results_before |-> last_search.results ]
    /\ UNCHANGED <<index, document_count, documents, added_ids, last_call,
                   calls>>
    /\ UNCHANGED <<store_vars, crawl_vars>>

\* ----------------------------------------------------------- a built index

\* the token lists of the pages an index is built from
DocTokens ==
    { <<T_hello>>, <<T_world>>, <<T_hello, T_world>>, <<T_hello, T_hello>> }

PostingCalls == [doc_id : DocIds, terms : DocTokens]

\* the index_terms calls that build an index, in their order
CallSeqs == UNION {[1..n -> PostingCalls] : n \in 0..MaxPostingCalls}

\* the index after the first n calls of cs on an empty index
RECURSIVE IndexAfter(_, _)
IndexAfter(cs, n) ==
    IF n = 0 THEN <<>>
    ELSE index_terms(IndexAfter(cs, n - 1), cs[n].doc_id, cs[n].terms)

\* the metadata of the page that is indexed under doc_id
PageMetadata(doc_id) ==
    IF doc_id = 1
    THEN [url |-> "https://example.com", title |-> Title_Example]
    ELSE [url |-> "https://example.org", title |-> Title_Hello]

\* how often add_document is called for each doc_id
AddPlans == [DocIds -> 0..MaxAddsPerDoc]

RECURSIVE AddTimes(_, _, _, _)
AddTimes(obj, doc_id, doc_metadata, n) ==
    IF n = 0 THEN obj
    ELSE LET before == AddTimes(obj, doc_id, doc_metadata, n - 1)
         IN  add_document(before.documents, before.document_count,
                          doc_id, doc_metadata)

\* documents and document_count after the add_document calls of plan for
\* the doc_ids of ids, on a fresh index
RECURSIVE DocsAfter(_, _)
DocsAfter(plan, ids) ==
    IF ids = {} THEN [documents |-> <<>>, document_count |-> 0]
    ELSE LET d == CHOOSE x \in ids : \A y \in ids : x >= y
         IN  AddTimes(DocsAfter(plan, ids \ {d}), d, PageMetadata(d), plan[d])

\* an InvertedIndex that add_document and index_terms calls have built;
\* calls counts the calls made from here on
BuiltIndex ==
    \E plan \in AddPlans, cs \in CallSeqs :
        /\ index = IndexAfter(cs, Len(cs))
        /\ documents = DocsAfter(plan, DocIds).documents
        /\ document_count = DocsAfter(plan, DocIds).document_count
        /\ added_ids = {d \in DocIds : plan[d] > 0}
        /\ last_call = NoCall
        /\ calls = 0

\* ------------------------------------------------------------------ Indexer

\* a float >= 0 written with one decimal: whole.tenths
Decimal(whole, tenths) == [whole |-> whole, tenths |-> tenths]

\* IndexerConfig.index_title_boost = 2.0 and index_heading_boost = 1.5
index_title_boost == Decimal(2, 0)
index_heading_boost == Decimal(1, 5)

\* int(x) of a float x >= 0: the fraction is cut off
IntOf(x) == (10 * x.whole + x.tenths) \div 10

\* the pages handed to the indexer: url and title of PageContent, and the
\* token streams tokenize returns for its title, its joined headings and its
\* text; Page_A2 is what a later crawl finds under the URL of Page_A
Page_A ==
    [url |-> "https://example.com", title |-> Title_Hello,
     title_tokens |-> <<T_hello>>, heading_tokens |-> <<T_world>>,
     text_tokens |-> <<T_hello, T_world, T_hello>>]

Page_B ==
    [url |-> "https://example.org", title |-> Title_Hello,
     title_tokens |-> <<T_hello>>, heading_tokens |-> <<>>,
     text_tokens |-> <<T_world>>]

Page_A2 ==
    [url |-> "https://example.com", title |-> Title_Hello,
     title_tokens |-> <<T_hello>>, heading_tokens |-> <<T_hello>>,
     text_tokens |-> <<T_world>>]

Pages == {Page_A, Page_B, Page_A2}

\* the database an Indexer can find when it connects: a new file, or the
\* file an earlier run has left with the row of https://example.com
StartDbs ==
    { EmptyDb,
      [rows |-> ("https://example.com" :> 1), seq |-> 1, last |-> 0] }

\* insert_document: INSERT OR IGNORE INTO documents, then cursor.lastrowid.
\* fails: execute or commit raises, the method returns -1. A url that is in
\* the table is ignored by the UNIQUE constraint: no row is written, the
\* AUTOINCREMENT sequence has moved on all the same, and lastrowid is still
\* the rowid of the last insert made through this connection (0 if none).
insert_document(d, url, fails) ==
    IF fails THEN [id |-> 0 - 1, db |-> d]
    ELSE IF url \in DOMAIN d.rows
    THEN [id |-> d.last, db |-> [d EXCEPT !.seq = d.seq + 1]]
    ELSE [id |-> d.seq + 1,
          db |-> [rows |-> (url :> (d.seq + 1)) @@ d.rows,
                  seq |-> d.seq + 1, last |-> d.seq + 1]]

\* for _ in range(n): index_terms(doc_id, terms)
RECURSIVE IndexTimes(_, _, _, _)
IndexTimes(idx, doc_id, terms, n) ==
    IF n <= 0 THEN idx
    ELSE IndexTimes(index_terms(idx, doc_id, terms), doc_id, terms, n - 1)

\* mutant of IndexBoosted: the stream is indexed once whatever the boost is
IndexOnce(idx, doc_id, terms, boost) ==
    IndexTimes(idx, doc_id, terms, 1)

\* a token stream is indexed int(boost) times
IndexBoosted(idx, doc_id, terms, boost) ==
    IndexTimes(idx, doc_id, terms, IntOf(boost))

\* Indexer.index_page on the InvertedIndex obj and the database d: the page
\* is stored under the id insert_document returns (the doc_id argument is
\* not used); an id <= 0 ends the call with False
index_page(obj, d, page, fails) ==
    LET r == insert_document(d, page.url, fails)
        db_id == r.id
        a == add_document(obj.documents, obj.document_count, db_id,
                          [url |-> page.url, title |-> page.title])
        i1 == IndexBoosted(obj.index, db_id, page.title_tokens,
                           index_title_boost)
        i2 == IndexBoosted(i1, db_id, page.heading_tokens,
                           index_heading_boost)
        i3 == index_terms(i2, db_id, page.text_tokens)
    IN  IF db_id <= 0
        THEN [ok |-> FALSE, db_id |-> db_id, db |-> r.db, obj |-> obj]
        ELSE [ok |-> TRUE, db_id |-> db_id, db |-> r.db,
              obj |-> IndexObject(i3, a.document_count, a.documents)]

\* what one page of an index_pages call did
PageStep(page, r, before) ==
    [page |-> page, ok |-> r.ok, db_id |-> r.db_id, before |-> before,
     after |-> r.obj]

\* mutant of PagesFrom: the loop ends at the first page that is not indexed
RECURSIVE PagesUntilFailure(_, _, _, _, _, _, _)
PagesUntilFailure(obj, d, pages, failing, i, indexed_count, steps) ==
    IF i > Len(pages)
    THEN [count |-> indexed_count, db |-> d, obj |-> obj, steps |-> steps]
    ELSE LET r == index_page(obj, d, pages[i], i \in failing)
         IN  IF ~r.ok
             THEN [count |-> indexed_count, db |-> r.db, obj |-> r.obj,
                   steps |-> Append(steps, PageStep(pages[i], r, obj))]
             ELSE PagesUntilFailure(r.obj, r.db, pages, failing, i + 1,
                                    indexed_count + 1,
                                    Append(steps, PageStep(pages[i], r, obj)))

\* the loop of index_pages from page i on: every page is handed to
\* index_page, indexed_count counts the calls that return True
RECURSIVE PagesFrom(_, _, _, _, _, _, _)
PagesFrom(obj, d, pages, failing, i, indexed_count, steps) ==
    IF i > Len(pages)
    THEN [count |-> indexed_count, db |-> d, obj |-> obj, steps |-> steps]
    ELSE LET r == index_page(obj, d, pages[i], i \in failing)
         IN  PagesFrom(r.obj, r.db, pages, failing, i + 1,
                       IF r.ok THEN indexed_count + 1 ELSE indexed_count,
                       Append(steps, PageStep(pages[i], r, obj)))

\* Indexer.index_pages(pages); failing: the pages whose insertion raises
index_pages(obj, d, pages, failing) ==
    PagesFrom(obj, d, pages, failing, 1, 0, <<>>)

\* Indexer.__init__: an empty InvertedIndex and a connection to the database
IndexerInit ==
    /\ IndexInit
    /\ json_file = NoFile
    /\ index2 = FreshIndex
    /\ db \in StartDbs

\* indexer.index_page(doc_id, page)
IndexPage(page, fails) ==
    /\ calls < MaxCalls
    /\ LET r == index_page(IndexObject(index, document_count, documents),
                           db, page, fails)
       IN  /\ index' = r.obj.index
           /\ document_count' = r.obj.document_count
           /\ documents' = r.obj.documents
           /\ db' = r.db
           /\ added_ids' = IF r.ok THEN added_ids \cup {r.db_id}
                                  ELSE added_ids
           /\ last_call' = [op |-> "index_page", page |-> page,
                            ok |-> r.ok, db_id |-> r.db_id,
                            stored |-> page.url \in DOMAIN db.rows]
    /\ calls' = calls + 1
    /\ UNCHANGED <<json_file, index2, ranker_vars, crawl_vars>>

\* the page lists index_pages is called with
PageSeqs == UNION {[1..n -> Pages] : n \in 0..MaxCalls}

\* indexer.index_pages(pages)
IndexPages(pages, failing) ==
    /\ calls + Len(pages) <= MaxCalls
    /\ LET r == index_pages(IndexObject(index, document_count, documents),
                            db, pages, failing)
       IN  /\ index' = r.obj.index
           /\ document_count' = r.obj.document_count
           /\ documents' = r.obj.documents
           /\ db' = r.db
           /\ added_ids' = added_ids \cup
                   {r.steps[i].db_id :
                        i \in {j \in 1..Len(r.steps) : r.steps[j].ok}}
           /\ last_call' = [op |-> "index_pages", pages |-> pages,
                            count |-> r.count, steps |-> r.steps]
    /\ calls' = calls + Len(pages)
    /\ UNCHANGED <<json_file, index2, ranker_vars, crawl_vars>>

\* ------------------------------------------------------------ specifications

Init == CrawlInit /\ IndexInit /\ StoreInit /\ RankerInit

Next ==
    \/ CrawlStart
    \/ \E r \in BagToSet(workers) : WorkerStart(r)
    \/ \E r \in BagToSet(workers) : RobotsResponse(r)
    \/ \E r \in BagToSet(workers) : FetchResponse(r)
    \/ \E r \in BagToSet(workers) : BackoffWake(r)
    \/ \E r \in BagToSet(workers) : DelayWake(r)
    \/ CrawlReturn
    \/ Tick

\* one crawl run, for every configuration of Configs
Spec == Init /\ [][Next]_vars

\* a step of crawl() or of one of its workers
CrawlStep ==
    \/ CrawlStart
    \/ \E r \in BagToSet(workers) : WorkerStart(r)
    \/ \E r \in BagToSet(workers) : RobotsResponse(r)
    \/ \E r \in BagToSet(workers) : FetchResponse(r)
    \/ \E r \in BagToSet(workers) : BackoffWake(r)
    \/ \E r \in BagToSet(workers) : DelayWake(r)
    \/ CrawlReturn

\* the event loop runs a coroutine whenever one is ready, and every request
\* and every sleep ends: while the crawl can take a step it is not put off
\* for ever (the passing of time, Tick, is not forced)
Fairness == WF_vars(CrawlStep)

FairSpec == Spec /\ Fairness

\* the inverted index under any calls, the crawler left as constructed
InitIndex ==
    /\ IndexInit
    /\ StoreInit
    /\ RankerInit
    /\ CrawlInitWith(CHOOSE c \in Configs : c.seed_urls = <<U_c>>)

NextIndex ==
    \/ \E d \in DocIds, m \in Metadata : AddDocument(d, m)
    \/ \E d \in DocIds, ts \in TokenSeqs : IndexTerms(d, ts)

SpecIndex == InitIndex /\ [][NextIndex]_vars

\* a built index is saved to JSON and loaded into a fresh InvertedIndex
InitStore ==
    /\ BuiltIndex
    /\ StoreInit
    /\ RankerInit
    /\ CrawlInitWith(CHOOSE c \in Configs : c.seed_urls = <<U_c>>)

NextStore == SaveToJson \/ LoadFromJson

SpecStore == InitStore /\ [][NextStore]_vars

\* searches on a built index
InitSearch == InitStore

NextSearch == \E q \in Queries, m \in MaxResultsChoices : Search(q, m)

SpecSearch == InitSearch /\ [][NextSearch]_vars

\* the index under add_document, index_terms and get_postings calls
InitCalls == InitIndex

NextCalls ==
    \/ \E d \in DocIds : AddDocument(d, PageMetadata(d))
    \/ \E d \in DocIds, ts \in DocTokens \cup {<<>>} : IndexTerms(d, ts)
    \/ \E t \in QueryTerms : GetPostings(t)

SpecCalls == InitCalls /\ [][NextCalls]_vars

\* _parse_robots_txt and the cached answer of can_fetch on robots.txt files
\* of up to MaxRobotsLines lines
MaxRobotsLines == 4

RobotsLines ==
    [key : {"user-agent"}, agent : {"*", "SearchEngineBot", "OtherBot"},
     path : {<<>>}]
    \cup [key : {"disallow"}, agent : {""},
          path : {<<>>, <<"/", "p">>, <<"/", "q">>}]
    \cup [key : {"allow"}, agent : {""}, path : {<<"/", "p">>}]

RobotsFiles == UNION {[1..n -> RobotsLines] : n \in 0..MaxRobotsLines}

InitRobots ==
    /\ CrawlInitWith(CHOOSE c \in Configs : c.seed_urls = <<U_c>>)
    /\ StoreInit
    /\ RankerInit
    /\ index = <<>>
    /\ document_count = 0
    /\ documents = <<>>
    /\ added_ids = {}
    /\ calls = 0
    /\ last_call \in {[op |-> "robots.txt", lines |-> f] : f \in RobotsFiles}

\* self.cache[domain] = self._parse_robots_txt(content, user_agent)
ParseRobotsTxt ==
    /\ last_call.op = "robots.txt"
    /\ last_call' = [op |-> "parse_robots_txt", lines |-> last_call.lines,
                     disallowed |-> parse_robots_txt(last_call.lines,
                                                     cfg.user_agent)]
    /\ UNCHANGED <<index, document_count, documents, added_ids, calls>>
    /\ UNCHANGED <<crawl_vars, store_vars, ranker_vars>>

\* can_fetch(url, user_agent, session) answered from the parsed rules
CanFetch(url) ==
    /\ last_call.op = "parse_robots_txt"
    /\ last_call' = [op |-> "can_fetch", lines |-> last_call.lines,
                     disallowed |-> last_call.disallowed, url |-> url,
                     allowed |-> RulesAllow(url, last_call.disallowed)]
    /\ UNCHANGED <<index, document_count, documents, added_ids, calls>>
    /\ UNCHANGED <<crawl_vars, store_vars, ranker_vars>>

NextRobots ==
    \/ ParseRobotsTxt
    \/ \E url \in {U_aRoot, U_ap, U_aq} : CanFetch(url)

SpecRobots == InitRobots /\ [][NextRobots]_vars

\* the crawl of one page by one worker, with up to MaxRetries retries
MaxRetries == 2

RetryConfigs ==
    [ seed_urls             : {<<U_ap>>},
      max_pages             : {1},
      max_workers           : {1},
      respect_robots_txt    : BOOLEAN,
      retry_attempts        : 0..MaxRetries,
      follow_external_links : {FALSE},
      user_agent            : {"SearchEngineBot"} ]

InitRetry ==
    /\ \E c \in RetryConfigs : CrawlInitWith(c)
    /\ IndexInit
    /\ StoreInit
    /\ RankerInit

SpecRetry == InitRetry /\ [][Next]_vars

\* URLProcessor.normalize_url on URLs with slashes and fragments at the end
MaxTailLen == 3

UrlTails == UNION {[1..n -> {"/", "#", "f"}] : n \in 0..MaxTailLen}

InputUrls == {base \o tail : base \in {U_c, U_ap, U_bx}, tail \in UrlTails}

InitUrls ==
    /\ CrawlInitWith(CHOOSE c \in Configs : c.seed_urls = <<U_c>>)
    /\ StoreInit
    /\ RankerInit
    /\ index = <<>>
    /\ document_count = 0
    /\ documents = <<>>
    /\ added_ids = {}
    /\ calls = 0
    /\ last_call \in {[op |-> "url", url |-> u] : u \in InputUrls}

\* URLProcessor.normalize_url(url)
NormalizeUrl ==
    /\ last_call.op = "url"
    /\ last_call' = [op |-> "normalize_url", url |-> last_call.url,
                     result |-> normalize_url(last_call.url)]
    /\ UNCHANGED <<index, document_count, documents, added_ids, calls>>
    /\ UNCHANGED <<crawl_vars, store_vars, ranker_vars>>

NextUrls == NormalizeUrl

SpecUrls == InitUrls /\ [][NextUrls]_vars

\* an Indexer indexes pages, one at a time and in lists
InitPages ==
    /\ IndexerInit
    /\ RankerInit
    /\ CrawlInitWith(CHOOSE c \in Configs : c.seed_urls = <<U_c>>)

NextPages ==
    \/ \E page \in Pages, fails \in BOOLEAN : IndexPage(page, fails)
    \/ \E pages \in PageSeqs, failing \in SUBSET (1..MaxCalls) :
          /\ failing \subseteq 1..Len(pages)
          /\ IndexPages(pages, failing)

SpecPages == InitPages /\ [][NextPages]_vars

\* a ranker on the index of an Indexer: pages are indexed and calculate_idf
\* is called, in any order
NextPagesIdf ==
    \/ NextPages
    \/ \E t \in Terms : CalculateIdf(t)

SpecPagesIdf == InitPages /\ [][NextPagesIdf]_vars

\* calculate_idf calls on a built index that is updated once in between
InitIdf == InitStore

UpdateOnce ==
    /\ last_call = NoCall
    /\ \/ \E d \in DocIds : AddDocument(d, PageMetadata(d))
       \/ \E d \in DocIds, ts \in DocTokens : IndexTerms(d, ts)

NextIdf ==
    \/ \E t \in Terms : CalculateIdf(t)
    \/ UpdateOnce

SpecIdf == InitIdf /\ [][NextIdf]_vars

\* Ranker(inverted_index).search and Ranker(index2).search, each on a new
\* ranker, for the same query: index2 has been loaded from the file that
\* save_to_json wrote from inverted_index
SearchLoaded(query_terms, max_results) ==
    /\ last_call.op = "load_from_json"
    /\ last_call.loaded
    /\ last_search' =
           [ op |-> "search loaded",
             query_terms |-> query_terms,
             max_results |-> max_results,
             results |-> search(<<>>, index, document_count, documents,
                                query_terms, max_results).results,
             results_loaded |-> search(<<>>, index2.index,
                                       index2.document_count,
                                       index2.documents, query_terms,
                                       max_results).results ]
    /\ UNCHANGED <<idf_cache, idf_first, idf_last>>
    /\ UNCHANGED <<index, document_count, documents, added_ids, last_call,
                   calls>>
    /\ UNCHANGED <<store_vars, crawl_vars>>

\* a built index is saved, loaded into a second index, and both are searched
NextLoaded ==
    \/ SaveToJson
    \/ LoadFromJson
    \/ \E q \in Queries, m \in MaxResultsChoices : SearchLoaded(q, m)

SpecLoaded == InitStore /\ [][NextLoaded]_vars

\* a ranker searches a built index that is updated once in between
NextHistory ==
    \/ \E q \in Queries, m \in MaxResultsChoices : Search(q, m)
    \/ UpdateOnce

SpecHistory == InitStore /\ [][NextHistory]_vars

\* ------------------------------------------------------------------ claims

Returned == crawl_pc = "returned"

Pool == BagToSet(workers)

\* the worker has given up on its URL after a timeout or an exception
GaveUp(r) == r.pc = "delay" /\ r.last \in {"timeout", "error"}

\* the entries of the frontier after a step that the step has appended
Appended == {i \in 1..Len(to_visit') : i > Len(to_visit)}

\* C1: in every interleaving of the workers, the worker loop calls fetch_page
\* at most once for each normalized URL.
C1_FetchedAtMostOnce == \A u \in Urls : fetch_calls[u] <= 1

\* two workers, a seed list that names one page twice: the page was fetched once
C1_Witness ==
    /\ Returned
    /\ cfg.max_workers >= 2
    /\ cfg.seed_urls = <<U_ap, U_apSlash, U_aq>>
    /\ fetch_calls[U_ap] = 1
    /\ fetch_calls[U_aq] = 1

\* C2: the sequence crawl returns never holds more than max_pages pages.
C2_AtMostMaxPages == Returned => Len(crawled_pages) <= cfg.max_pages

\* C3: when crawl returns, the frontier is empty or max_pages pages have been
\* collected; and the crawl of the single page site http://c (no links) with
\* max_pages = 5 returns with an empty frontier and, the site having served
\* its page, with exactly that one page.
C3_ReturnsWhenExhaustedOrCapped ==
    /\ Returned => (to_visit = <<>> \/ Len(crawled_pages) >= cfg.max_pages)
    /\ (Returned /\ cfg.seed_urls = <<U_c>> /\ cfg.max_pages = 5) =>
          /\ to_visit = <<>>
          /\ fetch_calls[U_c] = 1
          /\ U_c \in served => crawled_pages = <<U_c>>
          /\ U_c \notin served => crawled_pages = <<>>

\* the single page site, two workers: one page, empty frontier
C3_Witness ==
    /\ Returned
    /\ cfg.seed_urls = <<U_c>>
    /\ cfg.max_pages = 5
    /\ cfg.max_workers >= 2
    /\ U_c \in served
    /\ crawled_pages = <<U_c>>
    /\ to_visit = <<>>

\* C4 as claimed: the frontier never holds a URL that is in the visited set.
C4_FrontierDisjointFromVisited ==
    \A i \in 1..Len(to_visit) : to_visit[i] \notin visited_urls

\* C4 as amended: a URL is not in the visited set at the moment it is appended
\* to the frontier (the seeds are placed while the visited set is empty).
C4_AppendedNotVisited ==
    /\ (crawl_pc = "init" => visited_urls = {})
    /\ [][\A i \in Appended : to_visit'[i] \notin visited_urls']_vars

\* the page http://a/p has been fetched after http://a/: of its links only
\* http://a/q, not yet visited, was appended
C4_Witness ==
    /\ \E r \in Pool : r.pc = "delay" /\ r.last = "ok" /\ r.url = U_ap
    /\ U_aRoot \in visited_urls
    /\ U_aq \notin visited_urls
    /\ to_visit # <<>>
    /\ to_visit[Len(to_visit)] = U_aq

\* C5: a URL for which can_fetch has answered False is in the visited set, is
\* never handed to fetch_page, is held by no fetching worker and gives no page.
C5_DeniedNeverFetched ==
    \A u \in robots_denied :
        /\ cfg.respect_robots_txt
        /\ u \in visited_urls
        /\ fetch_calls[u] = 0
        /\ u \notin served
        /\ \A r \in Pool : r.url # u
        /\ \A i \in 1..Len(crawled_pages) : crawled_pages[i] # u

\* http://a/q, which robots.txt of http://a disallows for every agent, was
\* denied in a run that has ended
C5_Witness ==
    /\ Returned
    /\ U_aq \in robots_denied
    /\ U_aq \in visited_urls
    /\ crawled_pages # <<>>

\* C6: a URL whose every GET ended in a timeout or an exception has been
\* requested retry_attempts + 1 times when fetch_page gives up; it gives no
\* page, the step that gives up leaves the frontier and the pages as they
\* are, and nothing appends the URL to the frontier while the worker that
\* gave up on it sleeps before going on with the frontier.
C6_GivesUpAfterAllRetries ==
    /\ [](\A r \in Pool : GaveUp(r) =>
            /\ r.gets = cfg.retry_attempts + 1
            /\ r.attempt = cfg.retry_attempts
            /\ fetch_calls[r.url] = 1
            /\ r.url \notin served
            /\ \A i \in 1..Len(crawled_pages) : crawled_pages[i] # r.url)
    /\ [][\A r \in BagToSet(workers') : GaveUp(r) =>
            /\ CopiesIn(r, workers') > CopiesIn(r, workers) =>
                  (to_visit' = to_visit /\ crawled_pages' = crawled_pages)
            /\ \A i \in Appended : to_visit'[i] # r.url]_vars

\* with retry_attempts = 1, a worker has given up on a URL after two GETs and
\* the frontier still holds URLs
C6_Witness ==
    /\ cfg.retry_attempts = 1
    /\ to_visit # <<>>
    /\ \E r \in Pool : GaveUp(r) /\ r.gets = 2

\* C7 as claimed: a URL is dropped after a status other than 200 only when
\* its retries are used up.
C7_StatusRetried ==
    \A r \in Pool :
        (r.pc = "delay" /\ r.last = "status") => r.attempt = cfg.retry_attempts

\* C7 as amended: a GET that ends with a status other than 200 ends fetch_page
\* at once: no retry follows it (a worker backs off only after a timeout
\* or an exception) and the URL gives no page.
C7_StatusNotRetried ==
    \A r \in Pool :
        /\ r.pc = "backoff" => r.last \in {"timeout", "error"}
        /\ r.last = "status" =>
              /\ r.pc = "delay"
              /\ \A i \in 1..Len(crawled_pages) : crawled_pages[i] # r.url

\* with retry_attempts = 1, a URL was dropped after one GET that ended with a
\* status other than 200
C7_Witness ==
    /\ cfg.retry_attempts = 1
    /\ \E r \in Pool : r.pc = "delay" /\ r.last = "status" /\ r.gets = 1

\* C8: no step removes a URL from the visited set, and a URL is in it from the
\* moment the robots check or the fetch for it starts.
C8_VisitedGrows ==
    /\ [](/\ \A r \in Pool : r.url # NoUrl => r.url \in visited_urls
          /\ \A u \in Urls : fetch_calls[u] > 0 => u \in visited_urls
          /\ robots_denied \subseteq visited_urls)
    /\ [][visited_urls \subseteq visited_urls']_vars

\* a run has ended with more visited URLs than pages
C8_Witness ==
    /\ Returned
    /\ Cardinality(visited_urls) >= 3
    /\ Len(crawled_pages) < Cardinality(visited_urls)

\* C9: after add_document(doc_id, doc_metadata), document_count is one more
\* than before the call and documents[doc_id] is doc_metadata.
C9_AddDocumentCounts ==
    last_call.op = "add_document" =>
        /\ document_count = last_call.count_before + 1
        /\ IntKey(last_call.doc_id) \in DOMAIN documents
        /\ documents[IntKey(last_call.doc_id)] = last_call.doc_metadata

\* add_document after index_terms and another add_document
C9_Witness ==
    /\ last_call.op = "add_document"
    /\ last_call.count_before >= 1
    /\ index # <<>>

\* C10: document_count is the number of distinct doc_ids passed to
\* add_document, and the number of entries of documents.
C10_CountIsDistinctIds ==
    /\ document_count = Cardinality(added_ids)
    /\ document_count = Cardinality(DOMAIN documents)

\* the offsets (from 0) at which term t stands in the token list
Offsets(tokens, t) == {i - 1 : i \in {j \in 1..Len(tokens) : tokens[j] = t}}

\* the step is a call of index_terms
IsIndexTermsCall == calls' = calls + 1 /\ last_call'.op = "index_terms"

\* C11: every index_terms(doc_id, tokens) call appends, for every term t that
\* occurs f >= 1 times in tokens, exactly one posting (doc_id, f, positions) to
\* the posting list of t; positions has length f, is strictly increasing and
\* lists exactly the offsets i (from 0) with tokens[i] = t.
C11_OnePostingPerTerm ==
    [][IsIndexTermsCall =>
        \A t \in Terms :
            LET tokens == last_call'.terms
                f == Cardinality(Offsets(tokens, t))
                before == get_postings(index, t)
                after == get_postings(index', t)
                posting == after[Len(after)]
            IN  f >= 1 =>
                /\ Len(after) = Len(before) + 1
                /\ SubSeq(after, 1, Len(before)) = before
                /\ posting.doc_id = last_call'.doc_id
                /\ posting.frequency = f
                /\ Len(posting.positions) = f
                /\ \A i, j \in 1..f :
                        i < j => posting.positions[i] < posting.positions[j]
                /\ {posting.positions[i] : i \in 1..f} = Offsets(tokens, t)]_vars

\* index_terms(1, [hello, hello]) has appended the posting (1, 2, [0, 1]) to a
\* posting list that had a posting already
C11_Witness ==
    /\ last_call.op = "index_terms"
    /\ last_call.terms = <<T_hello, T_hello>>
    /\ Len(get_postings(index, T_hello)) = 2
    /\ get_postings(index, T_hello)[2] = Posting(last_call.doc_id, 2, <<0, 1>>)

\* C12: after save_to_json and load_from_json into a fresh InvertedIndex the
\* loaded index has the document_count of the saved index and, for every
\* term, the same posting list in the same order.
C12_RoundTripKeepsCountAndPostings ==
    (last_call.op = "load_from_json" /\ last_call.loaded) =>
        /\ index2.document_count = document_count
        /\ \A t \in Terms :
               get_postings(index2.index, t) = get_postings(index, t)

\* C13: after a save and a load, the lookup of every registered doc_id (the
\* int the postings hold) gives in the loaded index the metadata it gives in
\* the saved index.
C13_RoundTripKeepsLookups ==
    (last_call.op = "load_from_json" /\ last_call.loaded) =>
        \A d \in added_ids :
            /\ IntKey(d) \in DOMAIN index2.documents
            /\ index2.documents[IntKey(d)] = documents[IntKey(d)]

\* a search has been made
Searched == last_search.op # "none"

\* the doc_ids of the posting list of term t, in the order of the postings
PostingDocs(t) ==
    [k \in 1..Len(get_postings(index, t)) |-> get_postings(index, t)[k].doc_id]

\* the doc_ids in the order in which a scan of the posting lists of the
\* query terms meets them
RECURSIVE ScanFrom(_, _)
ScanFrom(query_terms, i) ==
    IF i > Len(query_terms) THEN <<>>
    ELSE PostingDocs(query_terms[i]) \o ScanFrom(query_terms, i + 1)

\* where the scan of the last search meets doc_id first
FirstMet(doc_id) ==
    LET scan == ScanFrom(last_search.query_terms, 1)
    IN  CHOOSE i \in 1..Len(scan) :
            scan[i] = doc_id /\ \A j \in 1..(i - 1) : scan[j] # doc_id

\* the place of doc_id in list(doc_ids_set) of the last search
PlaceInList(doc_id) ==
    LET doc_ids == list_of_set(last_search.doc_ids_set)
    IN  CHOOSE i \in 1..Len(doc_ids) : doc_ids[i] = doc_id

\* the results of the last search come in non-increasing score order
ScoresDescend ==
    \A i, j \in 1..Len(last_search.results) :
        i < j => last_search.results[i].score >= last_search.results[j].score

\* C14 as the spec states it: the results come in non-increasing score order,
\* and two results of equal score in the order in which the scan of the query
\* terms' posting lists first met their doc_ids.
C14_TiesInFirstMetOrder ==
    Searched =>
        /\ ScoresDescend
        /\ \A i, j \in 1..Len(last_search.results) :
               (i < j /\ last_search.results[i].score
                            = last_search.results[j].score)
               => FirstMet(last_search.results[i].doc_id)
                      < FirstMet(last_search.results[j].doc_id)

\* C14, amended: the results come in non-increasing score order, and two
\* results of equal score in the order in which list(doc_ids_set) holds their
\* doc_ids (the iteration order of the set of candidates).
C14_TiesInSetOrder ==
    Searched =>
        /\ ScoresDescend
        /\ \A i, j \in 1..Len(last_search.results) :
               (i < j /\ last_search.results[i].score
                            = last_search.results[j].score)
               => PlaceInList(last_search.results[i].doc_id)
                      < PlaceInList(last_search.results[j].doc_id)

\* two results of one score; the scan met document 2 before document 1
C14_Witness ==
    /\ Searched
    /\ Len(last_search.results) = 2
    /\ last_search.results[1].score = last_search.results[2].score
    /\ FirstMet(2) < FirstMet(1)

\* the documents a posting list of a term of the last query names
Candidates ==
    {d \in DocIds :
        \E i \in 1..Len(last_search.query_terms) :
            \E k \in 1..Len(get_postings(index, last_search.query_terms[i])) :
                get_postings(index, last_search.query_terms[i])[k].doc_id = d}

\* the summed score of document d over the terms of the last query
TotalScore(d) ==
    score_document(idf_cache, index, document_count, d,
                   last_search.query_terms, LookUp(documents, d)).score

ResultDocs == {last_search.results[i].doc_id : i \in 1..Len(last_search.results)}

\* C15: every result of search has a total score above 0; a candidate whose
\* summed score is 0 or less is in no result list, and every candidate whose
\* score is above 0 is in it unless max_results cuts the list.
C15_ResultsArePositiveCandidates ==
    Searched =>
        /\ \A i \in 1..Len(last_search.results) :
               /\ last_search.results[i].score > 0
               /\ last_search.results[i].doc_id \in Candidates
               /\ last_search.results[i].score
                      = TotalScore(last_search.results[i].doc_id)
        /\ \A d \in Candidates : TotalScore(d) <= 0 => d \notin ResultDocs
        /\ Len(last_search.results) <= last_search.max_results
        /\ Len(last_search.results) < last_search.max_results =>
               \A d \in Candidates : TotalScore(d) > 0 => d \in ResultDocs

\* of two candidates one has a score of 0 and is left out, the other is
\* returned
C15_Witness ==
    /\ Searched
    /\ Candidates = {1, 2}
    /\ \E d \in Candidates : TotalScore(d) = 0
    /\ Len(last_search.results) = 1
    /\ last_search.max_results = DefaultMaxResults

\* the terms of the query that have postings
KnownTerms(query_terms) ==
    SelectSeq(query_terms, LAMBDA t : get_postings(index, t) # <<>>)

\* C16: the candidates of a search are exactly the doc_ids in the posting
\* lists of the query terms; a term without postings adds no candidate and
\* nothing to a score, so the results are those of the query without such
\* terms.
C16_CandidatesAndUnknownTerms ==
    Searched =>
        /\ last_search.doc_ids_set = Candidates
        /\ last_search.results
              = search(idf_cache, index, document_count, documents,
                       KnownTerms(last_search.query_terms),
                       last_search.max_results).results

\* the query [x, hello] has found a document although x has no postings
C16_Witness ==
    /\ Searched
    /\ last_search.query_terms = <<T_x, T_hello>>
    /\ get_postings(index, T_x) = <<>>
    /\ Candidates = {1, 2}
    /\ Len(last_search.results) >= 1

\* the number of postings of term t
DocFreq(t) == Len(get_postings(index, t))

\* what calculate_idf(t) returns in this state
Idf(t) == calculate_idf(idf_cache, index, document_count, t).idf

\* C17 as the spec states it: of two terms with df1 < df2, df1 possibly 0,
\* the first has an idf that is not below the idf of the second.
C17_IdfFallsWithDocFreq ==
    \A t1, t2 \in QueryTerms :
        DocFreq(t1) < DocFreq(t2) => Idf(t1) >= Idf(t2)

\* C17, amended: of two terms with 0 < df1 < df2 the first has an idf that
\* is not below the idf of the second.
C17_IdfFallsWithPositiveDocFreq ==
    \A t1, t2 \in QueryTerms :
        (0 < DocFreq(t1) /\ DocFreq(t1) < DocFreq(t2)) => Idf(t1) >= Idf(t2)

\* a search has computed the idf of a term with one posting and of a term
\* with two, and the first is larger
C17_Witness ==
    /\ Searched
    /\ DocFreq(T_world) = 1
    /\ DocFreq(T_hello) = 2
    /\ {T_world, T_hello} \subseteq DOMAIN idf_cache
    /\ idf_cache[T_world] > idf_cache[T_hello]

\* C18: a second search on the same ranker, with the index unchanged and the
\* same query, returns the list of (doc_id, score) the first has returned.
C18_SearchAgainSameResults ==
    last_search.op = "search again" =>
        last_search.results = last_search.results_before

\* the same search was made twice and has found two documents
C18_Witness ==
    /\ last_search.op = "search again"
    /\ Len(last_search.results) = 2
    /\ idf_cache # <<>>

\* C19: search with an empty query returns the empty list, whatever the
\* index holds.
C19_EmptyQueryNoResults ==
    (Searched /\ last_search.query_terms = <<>>) => last_search.results = <<>>

\* the empty query on an index with postings and counted documents
C19_Witness ==
    /\ Searched
    /\ last_search.query_terms = <<>>
    /\ index # <<>>
    /\ document_count > 0

\* the postings of term t that name document d
Hits(t, d) ==
    {k \in 1..Len(get_postings(index, t)) :
        get_postings(index, t)[k].doc_id = d}

\* C20: calculate_tf(t, d) is the frequency of the first posting of t that
\* names d, and 0 when no posting of t names d; later postings of the same
\* term and document are not added in.
C20_TfIsFirstPosting ==
    \A t \in QueryTerms, d \in DocIds :
        calculate_tf(index, t, d) =
            IF Hits(t, d) = {} THEN 0
            ELSE get_postings(index, t)[
                     CHOOSE k \in Hits(t, d) : \A j \in Hits(t, d) : k <= j
                 ].frequency

\* hello has two postings for document 1, of frequency 1 and then 2; a search
\* for hello has scored document 1 with tf 1
C20_Witness ==
    /\ Searched
    /\ last_search.query_terms = <<T_hello>>
    /\ Hits(T_hello, 1) = {1, 2}
    /\ get_postings(index, T_hello)[1].frequency = 1
    /\ get_postings(index, T_hello)[2].frequency = 2
    /\ Len(last_search.results) = 1
    /\ last_search.results[1].score = Idf(T_hello)

\* C21 as the spec states it: the first value calculate_idf returns for a
\* term on a ranker is the value every later call returns, whatever is added
\* to the index in between.
C21_IdfComputedOnce ==
    \A t \in DOMAIN idf_first : idf_last[t].idf = idf_first[t].idf

\* C21, amended: the value calculate_idf returns for a term that has postings
\* is the value every later call returns, whatever is added to the index in
\* between.
C21_IdfOfPostedTermComputedOnce ==
    \A t \in DOMAIN idf_first :
        idf_first[t].df > 0 => idf_last[t].idf = idf_first[t].idf

\* calculate_idf was called for a term with postings before and after an
\* update of the index that has changed log(N / df) of the term
C21_Witness ==
    \E t \in DOMAIN idf_first :
        /\ idf_first[t].df > 0
        /\ idf_first[t].calls = 0
        /\ idf_last[t].calls = 1
        /\ document_count > 0
        /\ idf_last[t].idf # log_ratio(document_count, DocFreq(t))

\* the frequencies of the postings of term t that name document d, in the
\* order of the posting list
FreqsOf(idx, t, d) ==
    LET mine == SelectSeq(get_postings(idx, t), LAMBDA p : p.doc_id = d)
    IN  [k \in 1..Len(mine) |-> mine[k].frequency]

\* C22: every index_terms call for a document whose tokens hold term t adds
\* one posting for (t, document) with the frequency of t in that call and
\* leaves the postings of earlier calls as they are, so that k calls leave k
\* postings, each with the frequency of its own call; nothing is summed.
C22_OnePostingPerCall ==
    [][IsIndexTermsCall =>
        \A t \in Terms :
            LET d == last_call'.doc_id
                f == Cardinality(Offsets(last_call'.terms, t))
            IN  FreqsOf(index', t, d) =
                    IF f >= 1 THEN Append(FreqsOf(index, t, d), f)
                    ELSE FreqsOf(index, t, d)]_vars

\* three index_terms calls for document 1 have left three postings for
\* (hello, 1), of frequency 1, 2 and 1
C22_Witness ==
    /\ last_call.op = "index_terms"
    /\ calls = 3
    /\ FreqsOf(index, T_hello, 1) = <<1, 2, 1>>

\* C23: index_terms removes, reorders and changes no posting that is in the
\* index and leaves document_count and documents as they are; get_postings
\* changes nothing and returns the empty sequence for a term never indexed.
C23_PostingsAppendOnly ==
    [][/\ IsIndexTermsCall =>
            /\ \A t \in DOMAIN index :
                   /\ t \in DOMAIN index'
                   /\ Len(index'[t]) >= Len(index[t])
                   /\ SubSeq(index'[t], 1, Len(index[t])) = index[t]
            /\ document_count' = document_count
            /\ documents' = documents
       /\ (calls' = calls + 1 /\ last_call'.op = "get_postings") =>
            /\ index' = index
            /\ document_count' = document_count
            /\ documents' = documents
            /\ last_call'.term \notin DOMAIN index =>
                   last_call'.postings = <<>>
            /\ last_call'.term \in DOMAIN index =>
                   last_call'.postings = index[last_call'.term]]_vars

\* get_postings was called for a term never indexed, on an index whose
\* posting list of hello holds document 2 before document 1
C23_Witness ==
    /\ last_call.op = "get_postings"
    /\ last_call.term = T_x
    /\ last_call.postings = <<>>
    /\ PostingDocs(T_hello) = <<2, 1>>

\* the step is a call of index_page
IsIndexPageCall == calls' = calls + 1 /\ last_call'.op = "index_page"

\* the postings n index_terms(d, tokens) calls in a row append for term t
StreamPostings(tokens, t, d, n) ==
    IF Offsets(tokens, t) = {} THEN <<>>
    ELSE [k \in 1..n |-> [doc_id |-> d,
                          frequency |-> Cardinality(Offsets(tokens, t)),
                          offsets |-> Offsets(tokens, t)]]

\* C24: an index_page call that stores its page under document d appends, to
\* the posting list of every term t, int(title boost) postings (d, frequency
\* and offsets of t in the title tokens) if t is in the title, then
\* int(heading boost) postings for the heading tokens if t is in the headings,
\* then one posting for the body tokens if t is in the body, and nothing else.
C24_TitleHeadingBodyPostings ==
    [][(IsIndexPageCall /\ last_call'.ok) =>
        \A t \in Terms :
            LET page == last_call'.page
                d == last_call'.db_id
                before == get_postings(index, t)
                after == get_postings(index', t)
                added == SubSeq(after, Len(before) + 1, Len(after))
                expected ==
                    StreamPostings(page.title_tokens, t, d,
                                   IntOf(index_title_boost))
                    \o StreamPostings(page.heading_tokens, t, d,
                                      IntOf(index_heading_boost))
                    \o StreamPostings(page.text_tokens, t, d, 1)
            IN  /\ Len(after) = Len(before) + Len(expected)
                /\ SubSeq(after, 1, Len(before)) = before
                /\ \A k \in 1..Len(expected) :
                      /\ added[k].doc_id = expected[k].doc_id
                      /\ added[k].frequency = expected[k].frequency
                      /\ {added[k].positions[i] :
                              i \in 1..Len(added[k].positions)}
                         = expected[k].offsets]_vars

\* index_page has stored Page_A as document 1: hello has two title postings
\* and one body posting, world one heading posting and one body posting
C24_Witness ==
    /\ last_call.op = "index_page"
    /\ last_call.ok
    /\ last_call.page = Page_A
    /\ last_call.db_id = 1
    /\ index[T_hello] = <<Posting(1, 1, <<0>>), Posting(1, 1, <<0>>),
                          Posting(1, 2, <<0, 2>>)>>
    /\ index[T_world] = <<Posting(1, 1, <<0>>), Posting(1, 1, <<1>>)>>

\* C25: an index_page call for a page whose URL is stored as a document
\* leaves the posting lists, document_count and the metadata of every
\* document unchanged.
C25_StoredUrlIsNoOp ==
    [][(IsIndexPageCall /\ last_call'.stored) =>
        /\ index' = index
        /\ document_count' = document_count
        /\ documents' = documents]_vars

\* C26: an index_pages call hands every page of its list to index_page, in
\* order; a page whose insertion returns an id <= 0 leaves the inverted index
\* as it was, every page whose insertion returns an id > 0 is indexed under
\* that id wherever it stands in the list, and the returned count is the
\* number of pages index_page returned True for.
C26_FailedPagesAreSkipped ==
    last_call.op = "index_pages" =>
        LET st == last_call.steps
            n == Len(last_call.pages)
        IN  /\ Len(st) = n
            /\ \A i \in 1..n :
                  /\ st[i].page = last_call.pages[i]
                  /\ st[i].before = IF i = 1 THEN st[i].before
                                            ELSE st[i - 1].after
                  /\ st[i].ok <=> st[i].db_id > 0
                  /\ st[i].db_id <= 0 => st[i].after = st[i].before
                  /\ st[i].db_id > 0 =>
                        /\ IntKey(st[i].db_id) \in DOMAIN st[i].after.documents
                        /\ st[i].after.document_count =
                               st[i].before.document_count + 1
            /\ n > 0 => st[n].after =
                            IndexObject(index, document_count, documents)
            /\ last_call.count = Cardinality({i \in 1..n : st[i].ok})

\* index_pages was called with three pages; the insertion of the second one
\* failed, the first and the third are indexed and 2 is returned
C26_Witness ==
    /\ last_call.op = "index_pages"
    /\ Len(last_call.pages) = 3
    /\ last_call.steps[1].ok
    /\ last_call.steps[2].db_id <= 0
    /\ last_call.steps[3].ok
    /\ last_call.count = 2
    /\ document_count = 2

\* the file name endings of links that are not followed
DeniedEndings ==
    { <<".", "p", "d", "f">>, <<".", "z", "i", "p">>, <<".", "e", "x", "e">>,
      <<".", "j", "p", "g">>, <<".", "p", "n", "g">>, <<".", "g", "i", "f">>,
      <<".", "m", "p", "4">> }

\* C27: a step that appends to the frontier is the step in which a page is
\* fetched with status 200 and put into the result; every URL it appends is
\* the normalized form of a link of that page, has a scheme and a host, has
\* the host of the page unless follow_external_links is set, does not end
\* (in lower case) in .pdf .zip .exe .jpg .png .gif .mp4, and is not in the
\* visited set when it is appended.
C27_AppendedLinksAreFollowable ==
    [][Appended # {} =>
        /\ Len(crawled_pages') = Len(crawled_pages) + 1
        /\ LET page == crawled_pages'[Len(crawled_pages')]
           IN  /\ page \in served'
               /\ \A i \in Appended :
                     LET link == to_visit'[i]
                     IN  /\ \E l \in PageLinks(page) : normalize_url(l) = link
                         /\ UrlScheme(link) # <<>>
                         /\ UrlNetloc(link) # <<>>
                         /\ cfg.follow_external_links
                                \/ UrlNetloc(link) = UrlNetloc(page)
                         /\ \A e \in DeniedEndings : ~EndsWith(Lower(link), e)
                         /\ link \notin visited_urls
                         /\ link \notin visited_urls']_vars

\* http://a/ has been fetched without cross-domain following: of its five
\* links (two pages of the host, one of another host, a PDF, a link without
\* host) the two pages of the host were appended
C27_Witness ==
    /\ ~cfg.follow_external_links
    /\ \E r \in Pool : r.pc = "delay" /\ r.last = "ok" /\ r.url = U_aRoot
    /\ crawled_pages = <<U_aRoot>>
    /\ Len(to_visit) = 2
    /\ {to_visit[1], to_visit[2]} = {U_ap, U_aq}

\* the URL without its fragment: what stands before the first "#"
WithoutFragment(u) == SubSeq(u, 1, FirstOf(u, {"#"}, 1) - 1)

\* the path of a URL without fragment: what follows scheme, "://" and host
PathOf(u) ==
    SubSeq(u, Len(UrlScheme(u)) + 3 + Len(UrlNetloc(u)) + 1, Len(u))

\* the path is deeper than the domain root
DeeperThanRoot(u) == PathOf(u) \notin {<<>>, <<"/">>}

\* the URL without fragment and, for a path deeper than the root, without
\* trailing slashes: two URLs differ only by a fragment and trailing slashes
\* when this is the same for both
WithoutFragmentAndSlash(u) ==
    LET v == WithoutFragment(u)
    IN  IF DeeperThanRoot(v) THEN RStrip(v, "/") ELSE v

\* C28: normalize_url(u) holds no "#"; when its path is deeper than the
\* domain root it does not end in "/"; and every URL that differs from u only
\* by a fragment and trailing slashes has the same normalized form as u.
C28_NoFragmentNoTrailingSlash ==
    last_call.op = "normalize_url" =>
        LET u == last_call.url
            n == last_call.result
        IN  /\ \A i \in 1..Len(n) : n[i] # "#"
            /\ DeeperThanRoot(n) => n[Len(n)] # "/"
            /\ \A v \in InputUrls :
                  WithoutFragmentAndSlash(v) = WithoutFragmentAndSlash(u)
                      => normalize_url(v) = n

\* C29: the n-th backoff sleep of a fetch_page call chain, the one that
\* follows failed attempt n - 1, lasts retry_backoff^(n - 1) seconds; a worker
\* has slept once per failed attempt before the one it is in, and a worker
\* that has given up after retry_attempts + 1 failed attempts has slept
\* retry_attempts times: nothing but the 0.5 s of the loop follows the last
\* failure.
C29_BackoffIsBaseToTheAttempt ==
    \A r \in Pool :
        /\ \A n \in 1..Len(r.waits) : r.waits[n] = retry_backoff ^ (n - 1)
        /\ r.pc = "get" => Len(r.waits) = r.attempt
        /\ r.pc = "backoff" =>
              /\ Len(r.waits) = r.attempt + 1
              /\ r.attempt < cfg.retry_attempts
        /\ GaveUp(r) =>
              /\ r.attempt = cfg.retry_attempts
              /\ Len(r.waits) = cfg.retry_attempts

\* with retry_attempts = 2 a worker has given up on its URL after three GETs
\* and sleeps of 1 and 2 seconds
C29_Witness ==
    /\ cfg.retry_attempts = 2
    /\ \E r \in Pool : GaveUp(r) /\ r.gets = 3 /\ r.waits = <<1, 2>>

\* C30: with respect_robots_txt set, can_fetch is called for every URL that
\* enters the visited set. If the rule set of the URL's domain is cached and
\* the time is before its expiry, no robots.txt request is issued for the URL
\* and the cached rules decide; otherwise (no rule set, or the time is at or
\* after the expiry) a robots.txt request is issued. A request that succeeds
\* stores the parsed rule set and an expiry 24 hours after the time of
\* storing; one that fails leaves cache and expiry as they are.
C30_CachedRulesUntilExpiry ==
    [][cfg.respect_robots_txt =>
        /\ \A u \in visited_urls' \ visited_urls :
              LET dom == UrlDomain(u)
                  requested == \E r \in BagToSet(workers') :
                                  r.pc = "robots" /\ r.url = u
                  cached == /\ dom \in DOMAIN robots_cache'
                            /\ dom \in DOMAIN cache_expiry'
                            /\ now' < cache_expiry'[dom]
              IN  /\ cached =>
                        /\ ~requested
                        /\ u \in robots_denied'
                              <=> ~RulesAllow(u, robots_cache'[dom])
                  /\ ~cached => requested
        /\ \A r \in Pool :
              (r.pc = "robots" /\ CopiesIn(r, workers') < CopiesIn(r, workers)) =>
                  LET dom == UrlDomain(r.url)
                  IN  \/ /\ robots_cache' = robots_cache
                         /\ cache_expiry' = cache_expiry
                      \/ /\ DOMAIN robots_cache' = DOMAIN robots_cache \cup {dom}
                         /\ DOMAIN cache_expiry' = DOMAIN cache_expiry \cup {dom}
                         /\ robots_cache'[dom] =
                               parse_robots_txt(RobotsFile(dom), cfg.user_agent)
                         /\ cache_expiry'[dom] = now + RobotsTTLHours
                         /\ \A d \in DOMAIN robots_cache \ {dom} :
                               robots_cache'[d] = robots_cache[d]
                         /\ \A d \in DOMAIN cache_expiry \ {dom} :
                               cache_expiry'[d] = cache_expiry[d]]_vars

\* the rule set of http://a, stored at hour 0, had expired at hour 24 when
\* can_fetch was called again: robots.txt was requested again and the rule
\* set stored with the new expiry, hour 48; the first page had been answered
\* for and fetched
C30_Witness ==
    /\ cfg.respect_robots_txt
    /\ now = RobotsTTLHours
    /\ HTTP \o <<"a">> \in DOMAIN cache_expiry
    /\ cache_expiry[HTTP \o <<"a">>] = 2 * RobotsTTLHours
    /\ Cardinality(visited_urls) >= 2

\* C31: the robots.txt of a domain is requested at most twice per TTL period,
\* whatever the number of workers; stated for the first period: while less
\* than 24 hours have passed since the crawl began, no domain has had more
\* than two robots.txt requests.
C31_AtMostTwoRobotsRequests ==
    now < RobotsTTLHours =>
        \A dom \in DOMAIN robots_gets : robots_gets[dom] <= 2

\* the lines of a robots.txt whose Disallow path is collected for the agent:
\* Disallow lines with a path whose nearest User-agent line above names "*"
\* or the agent
CollectedLines(lines, agent) ==
    {i \in 1..Len(lines) :
        /\ lines[i].key = "disallow"
        /\ lines[i].path # <<>>
        /\ \E j \in 1..(i - 1) :
              /\ lines[j].key = "user-agent"
              /\ \A k \in (j + 1)..(i - 1) : lines[k].key # "user-agent"
              /\ lines[j].agent \in {"*", agent}}

\* C32: the paths _parse_robots_txt returns are those of the non-empty
\* Disallow lines whose most recent User-agent line names "*" or the
\* configured agent, once per such line and in the order of the lines; a URL
\* is refused if and only if it starts with its scheme and host followed by
\* one of these paths.
C32_DisallowUnderOwnAgent ==
    last_call.op \in {"parse_robots_txt", "can_fetch"} =>
        LET lines == last_call.lines
            got == last_call.disallowed
            kept == CollectedLines(lines, cfg.user_agent)
        IN  /\ Len(got) = Cardinality(kept)
            /\ \A n \in 1..Len(got) :
                  \E i \in kept :
                      /\ Cardinality({j \in kept : j <= i}) = n
                      /\ got[n] = lines[i].path
            /\ last_call.op = "can_fetch" =>
                  (~last_call.allowed <=>
                      \E i \in kept :
                          StartsWith(last_call.url,
                                     UrlScheme(last_call.url) \o <<":", "/", "/">>
                                     \o UrlNetloc(last_call.url)
                                     \o lines[i].path))

\* a robots.txt with Disallow /q under * and Disallow /p under OtherBot:
\* only /q is collected and http://a/q is refused
C32_Witness ==
    /\ last_call.op = "can_fetch"
    /\ last_call.lines =
          << [key |-> "user-agent", agent |-> "*", path |-> <<>>],
             [key |-> "disallow", agent |-> "", path |-> <<"/", "q">>],
             [key |-> "user-agent", agent |-> "OtherBot", path |-> <<>>],
             [key |-> "disallow", agent |-> "", path |-> <<"/", "p">>] >>
    /\ last_call.disallowed = << <<"/", "q">> >>
    /\ last_call.url = U_aq
    /\ ~last_call.allowed

\* C33: when every request and every sleep ends and every ready worker is
\* run, crawl returns in the end, for every number of workers and every
\* max_pages of the configurations.
C33_CrawlReturns == <>Returned

\* a crawl of two workers from http://a/ has returned with two pages and
\* every worker out of its loop
C33_Witness ==
    /\ Returned
    /\ cfg.max_workers = 2
    /\ cfg.seed_urls = <<U_aRoot>>
    /\ Len(crawled_pages) = 2
    /\ \A r \in Pool : r.pc = "done"

\* C34: when crawl has returned with fewer than max_pages pages, every link
\* of every collected page that should_follow_link accepts is, normalized, in
\* visited_urls.
C34_ClosedUnderLinks ==
    (Returned /\ Len(crawled_pages) < cfg.max_pages) =>
        \A i \in 1..Len(crawled_pages) :
            \A l \in PageLinks(crawled_pages[i]) :
                should_follow_link(crawled_pages[i], normalize_url(l),
                                   cfg.follow_external_links)
                    => normalize_url(l) \in visited_urls

\* two workers crawl from http://a/ with room for five pages: the second
\* worker starts on an empty frontier and leaves while the first is fetching,
\* and the crawl returns with the pages reached over followed links
C34_Witness ==
    /\ Returned
    /\ cfg.max_workers = 2
    /\ cfg.max_pages = 5
    /\ cfg.seed_urls = <<U_aRoot>>
    /\ Len(crawled_pages) >= 3
    /\ crawled_pages[1] = U_aRoot
    /\ U_aq \in visited_urls

\* every URL the crawler holds or has held: the frontier, the visited set,
\* the URLs in the hands of the workers and the URLs fetch_page was called for
HeldUrls ==
    {to_visit[i] : i \in 1..Len(to_visit)}
        \cup visited_urls
        \cup {r.url : r \in {w \in Pool : w.pc \in {"robots", "get", "backoff", "delay"}}}
        \cup {u \in DOMAIN fetch_calls : fetch_calls[u] > 0}

\* C35: with follow_external_links off, every URL in the frontier, in the
\* visited set, or fetched has the host of one of the seed URLs.
C35_StaysOnSeedHosts ==
    ~cfg.follow_external_links =>
        \A u \in HeldUrls :
            \E i \in 1..Len(cfg.seed_urls) :
                UrlNetloc(u) = UrlNetloc(cfg.seed_urls[i])

\* http://a/, which links to http://b/x, was fetched with
\* follow_external_links off, and the crawl went on to other pages of host a
C35_Witness ==
    /\ ~cfg.follow_external_links
    /\ cfg.seed_urls = <<U_aRoot>>
    /\ U_aRoot \in served
    /\ U_bx \in PageLinks(crawled_pages[1])
    /\ Len(crawled_pages) >= 2
    /\ Returned

\* C36: on an index that only index_page has filled, no calculate_idf call
\* returns a negative idf.
C36_IdfNeverNegative ==
    \A t \in DOMAIN idf_last : idf_last[t].idf >= 0

\* C37: every search returns what a new ranker returns for the same query on
\* the index as it is at the call, whatever the ranker has served before.
C37_SearchIgnoresHistory ==
    [][last_search' # last_search =>
          last_search'.results =
              search(<<>>, index', document_count', documents',
                     last_search'.query_terms,
                     last_search'.max_results).results]_vars

\* what the claim compares of a result list: doc_id, score, url and title
Compared(results) ==
    [i \in 1..Len(results) |->
        <<results[i].doc_id, results[i].score, results[i].url,
          results[i].title>>]

\* C38: for every query and max_results, search on the index loaded from the
\* saved file returns the list of (doc_id, score, url, title) that search on
\* the saved index returns.
C38_LoadedSearchEqualsSaved ==
    last_search.op = "search loaded" =>
        Compared(last_search.results_loaded) = Compared(last_search.results)

====
